---- MODULE Spec2Model ----
(***************************************************************************)
(* Incremental ingestion of WhatsApp Evolution rows (PostgreSQL) into the  *)
(* analytics store (MongoDB): cursor pagination, range bounds, mapping,    *)
(* validation, message upsert and the two-phase chat aggregate upsert.     *)
(***************************************************************************)
EXTENDS Integers, Sequences, FiniteSets, TLC

VARIABLES
    source,          \* public."Message": the set of source rows
    messages,        \* target collection 'messages', keyed by wa_message_id
    chats,           \* target collection 'chats', keyed by chatId (one tenant)
    now,             \* wall clock, in seconds
    filterConfig,    \* evolution/filter.ts: the configured range policy
    batchSize,       \* config.batchSize
    runs,            \* number of ingest invocations started so far
    pc,              \* position of the ingest action
    dryRun,          \* --dry-run of the current invocation
    chatIds,         \* chats discovered for the current invocation
    chatIdx,         \* index into chatIds of the chat being processed
    cursor,          \* ChatCursor of the chat being processed
    bounds,          \* time bounds of the chat being processed
    rows,            \* the batch last returned by readBatchByChat
    rowIdx,          \* index into rows of the next row to process
    batchCount,      \* batches read for the chat being processed
    importedForChat, \* records counted for the chat being processed
    firstIso,        \* createdAt of the first accepted row of the chat
    lastIso,         \* createdAt of the last accepted row of the chat
    readFrom,        \* history: the cursor passed to the last read
    firstRead,       \* history: batch number in which a key was first read
    prev,            \* history: source and target at the last flushed Done
    failedAt,        \* history: position at which the invocation failed
    snapshot,        \* history: the source when the paging of the chat began
    calls,           \* upsertChat invocations in progress, one per caller
    probe            \* a mapper, extractor or validator call: input, output

vars == <<source, messages, chats, now, filterConfig, batchSize, runs, pc,
          dryRun, chatIds, chatIdx, cursor, bounds, rows, rowIdx, batchCount,
          importedForChat, firstIso, lastIso, readFrom, firstRead, prev,
          failedAt, snapshot, calls, probe>>

runVars == <<dryRun, chatIds, chatIdx, cursor, bounds, rows, rowIdx,
             batchCount, importedForChat, firstIso, lastIso, readFrom,
             firstRead, snapshot>>

(***************************************************************************)
(* Bounds of the model.                                                    *)
(***************************************************************************)
MaxBatchSize == 2
MaxRuns == 2
MaxDeliveries == 3

(***************************************************************************)
(* Optional values: null/undefined is the empty sequence.                  *)
(***************************************************************************)
None == <<>>
Some(x) == <<x>>
IsSome(o) == o # None
Val(o) == o[1]

(***************************************************************************)
(* JSON scalars as they reach the validator.                               *)
(***************************************************************************)
JsonString(s) == [type |-> "string", v |-> s]
JsonNumber(s) == [type |-> "number", v |-> s]
JsonNull == [type |-> "null", v |-> ""]
Truthy(j) == j.type # "null" /\ j.v # "" /\ j.v # "0"

(***************************************************************************)
(* Date.prototype.toISOString: fixed-width, zero-padded fields, most       *)
(* significant first.  The date part is kept as the day number.            *)
(***************************************************************************)
SecondsPerDay == 86400
ToIso(seconds) ==
    << seconds \div SecondsPerDay,
       (seconds % SecondsPerDay) \div 3600,
       (seconds % 3600) \div 60,
       seconds % 60 >>

RECURSIVE LexLess(_, _)
LexLess(a, b) ==
    IF a = <<>> THEN b # <<>>
    ELSE IF b = <<>> THEN FALSE
    ELSE IF Head(a) # Head(b) THEN Head(a) < Head(b)
    ELSE LexLess(Tail(a), Tail(b))

\* string comparison of two ISO timestamps, as $min / $max compare them
IsoLess(a, b) == LexLess(a, b)
IsoMin(a, b) == IF IsoLess(b, a) THEN b ELSE a
IsoMax(a, b) == IF IsoLess(a, b) THEN b ELSE a

(***************************************************************************)
(* Source rows.                                                            *)
(***************************************************************************)
TenantId == "default"
Chats == {"c1"}
KeyIds == <<"a", "b", "c">>
Timestamps == {100, 105}
PushNames == {JsonString("Ann"), JsonNumber("42")}

\* further ids, for sources larger than the ones an invocation pages through
MoreKeyIds == <<"d", "e", "f", "g">>
IdOrder == KeyIds \o MoreKeyIds
IdRank(id) == CHOOSE i \in 1..Len(IdOrder) : IdOrder[i] = id
\* text comparison  x > y  of "key"->>'id'
IdGreater(x, y) == IdRank(x) > IdRank(y)

EvolutionMessageRow(id, jid, ts, pushName) ==
    [ id |-> id,
      key |-> [id |-> id, remoteJid |-> jid, fromMe |-> FALSE],
      pushName |-> pushName,
      participant |-> None,
      messageType |-> "conversation",
      message |-> [conversation |-> Some("hi"), extendedText |-> None,
                   imageCaption |-> None],
      contextInfo |-> JsonNull,
      messageTimestamp |-> ts,
      instanceId |-> "i1" ]

RowUniverse ==
    { EvolutionMessageRow(KeyIds[i], jid, ts, pn) :
        i \in 1..Len(KeyIds), jid \in Chats, ts \in Timestamps,
        pn \in PushNames }

RowKey(row) == <<row.messageTimestamp, row.key.id>>
\* (ts1, id1) < (ts2, id2), lexicographically
KeyLess(k1, k2) ==
    \/ k1[1] < k2[1]
    \/ k1[1] = k2[1] /\ IdGreater(k2[2], k1[2])

(***************************************************************************)
(* evolution/extract.ts                                                    *)
(***************************************************************************)
NonEmpty(o) == IsSome(o) /\ Val(o) # ""

ExtractTextAndCaption(messageType, message) ==
    IF messageType = "conversation" /\ NonEmpty(message.conversation)
    THEN [text |-> Val(message.conversation), placeholder |-> FALSE]
    ELSE IF NonEmpty(message.extendedText)
    THEN [text |-> Val(message.extendedText), placeholder |-> FALSE]
    ELSE IF NonEmpty(message.imageCaption)
    THEN [text |-> Val(message.imageCaption), placeholder |-> FALSE]
    ELSE [text |-> messageType, placeholder |-> TRUE]

(***************************************************************************)
(* evolution/mapper.ts                                                     *)
(***************************************************************************)
WaMessageId(row) == IF row.key.id # "" THEN row.key.id ELSE row.id

MapEvolutionRowToMessage(row, ctx) ==
    LET chat_id == row.key.remoteJid
        wa_message_id == WaMessageId(row)
        from_me == row.key.fromMe
        sender_jid == row.participant
        createdAt == ToIso(row.messageTimestamp)
        sender ==
            IF from_me
            THEN [channelId |-> chat_id, role |-> "bot",
                  displayName |-> JsonNull]
            ELSE [channelId |-> IF NonEmpty(sender_jid)
                                THEN Val(sender_jid) ELSE chat_id,
                  role |-> "user",
                  displayName |-> IF Truthy(row.pushName)
                                  THEN row.pushName ELSE JsonNull]
    IN  [ msg |->
            [ schemaVersion |-> 1,
              tenantId |-> ctx.tenantId,
              messageId |-> wa_message_id,
              chatId |-> chat_id,
              channel |-> "whatsapp",
              direction |-> IF from_me THEN "outbound" ELSE "inbound",
              type |-> "message",
              origin |-> "provider",
              createdAt |-> createdAt,
              sender |-> sender,
              content |-> ExtractTextAndCaption(row.messageType, row.message),
              context |-> IF Truthy(row.contextInfo)
                          THEN row.contextInfo ELSE JsonNull,
              raw |-> [pushName |-> row.pushName,
                       messageTimestamp |-> row.messageTimestamp] ],
          helpers |->
            [ wa_message_id |-> wa_message_id,
              chat_id |-> chat_id,
              sender_jid |-> sender_jid,
              ts_iso |-> createdAt,
              instance_id |-> row.instanceId,
              channel_id |-> ctx.channel_id ] ]

MapperContext(row) == [tenantId |-> TenantId, channel_id |-> row.instanceId]

(***************************************************************************)
(* model/validators.ts with schemas/message.schema.ts                      *)
(***************************************************************************)
Roles == {"user", "agent", "bot", "system"}

ValidateMessage(msg) ==
    /\ msg.schemaVersion = 1
    /\ msg.channel \in {"whatsapp", "telegram", "instagram", "twilio_sms",
                        "twilio_rcs", "chatwoot", "email", "webhook",
                        "system", "other"}
    /\ msg.direction \in {"inbound", "outbound"}
    /\ msg.type \in {"message", "status", "system"}
    /\ msg.origin \in {"provider", "internal"}
    /\ Len(msg.createdAt) = 4
    /\ msg.sender.role \in Roles
    /\ msg.sender.displayName.type \in {"string", "null"}
    /\ msg.context.type \in {"object", "null"}

\* the outcome of mapping and validating one source row
RowIsValid(row) ==
    ValidateMessage(MapEvolutionRowToMessage(row, MapperContext(row)).msg)

(***************************************************************************)
(* evolution/reader.ts                                                     *)
(***************************************************************************)
NullCursor == [last_ts_seconds |-> None, last_message_id |-> None]
NoBounds == [sinceSeconds |-> None, untilSeconds |-> None]

\* variant: the id tie-break is left out of the WHERE clause
BatchPredicate_NoTieBreak(row, chat_id, cur, bnds) ==
    /\ chat_id = None \/ row.key.remoteJid = Val(chat_id)
    /\ \/ cur.last_ts_seconds = None
       \/ row.messageTimestamp > Val(cur.last_ts_seconds)
    /\ bnds.sinceSeconds = None
          \/ row.messageTimestamp >= Val(bnds.sinceSeconds)
    /\ bnds.untilSeconds = None
          \/ row.messageTimestamp <= Val(bnds.untilSeconds)

\* the WHERE clause of readBatchByChat
BatchPredicate(row, chat_id, cur, bnds) ==
    /\ chat_id = None \/ row.key.remoteJid = Val(chat_id)
    /\ \/ cur.last_ts_seconds = None
       \/ row.messageTimestamp > Val(cur.last_ts_seconds)
       \/ /\ row.messageTimestamp = Val(cur.last_ts_seconds)
          /\ IsSome(cur.last_message_id)
          /\ IdGreater(row.key.id, Val(cur.last_message_id))
    /\ bnds.sinceSeconds = None
          \/ row.messageTimestamp >= Val(bnds.sinceSeconds)
    /\ bnds.untilSeconds = None
          \/ row.messageTimestamp <= Val(bnds.untilSeconds)

\* variant: ORDER BY ... DESC
OrderFirst_Desc(S) ==
    CHOOSE r \in S : \A o \in S : o = r \/ KeyLess(RowKey(o), RowKey(r))

\* ORDER BY "messageTimestamp" ASC, "key"->>'id' ASC
OrderFirst(S) ==
    CHOOSE r \in S : \A o \in S : o = r \/ KeyLess(RowKey(r), RowKey(o))

RECURSIVE OrderLimit(_, _)
\* ORDER BY ... LIMIT n over the set S
OrderLimit(S, n) ==
    IF S = {} \/ n <= 0 THEN <<>>
    ELSE LET r == OrderFirst(S)
         IN  <<r>> \o OrderLimit(S \ {r}, n - 1)

ReadBatchByChat(chat_id, cur, size, bnds) ==
    OrderLimit({r \in source : BatchPredicate(r, chat_id, cur, bnds)}, size)

\* ORDER BY "messageTimestamp" DESC, "key"->>'id' DESC
OrderLast(S) ==
    CHOOSE r \in S : \A o \in S : o = r \/ KeyLess(RowKey(o), RowKey(r))

RECURSIVE OrderDescOffset(_, _)
\* ORDER BY ... DESC OFFSET n LIMIT 1 over the set S
OrderDescOffset(S, n) ==
    IF S = {} THEN None
    ELSE IF n = 0 THEN Some(OrderLast(S))
    ELSE OrderDescOffset(S \ {OrderLast(S)}, n - 1)

ChatRows(chat_id) == {r \in source : r.key.remoteJid = chat_id}

GetLatestMessageMeta(chat_id) == OrderDescOffset(ChatRows(chat_id), 0)

\* variant: only a negative depth switches the boundary off
DepthDisabled_Negative(depth) == depth < 0

\* line 181: a depth of zero or less asks for no boundary
DepthDisabled(depth) == depth <= 0

\* variant: the boundary is the depth-th most recent row
GetNthMostRecentBoundary_OffByOne(chat_id, depth) ==
    IF DepthDisabled(depth) THEN None
    ELSE OrderDescOffset(ChatRows(chat_id), depth - 1)

GetNthMostRecentBoundary(chat_id, depth) ==
    IF DepthDisabled(depth) THEN None
    ELSE OrderDescOffset(ChatRows(chat_id), depth)

(***************************************************************************)
(* cli/ingest.ts: bounds of one chat under the configured filter           *)
(***************************************************************************)
\* variant: the relative-days window is anchored to the wall clock
ComputeBounds_WallClock(chatId) ==
    IF filterConfig.type = "absolute"
    THEN [sinceSeconds |-> filterConfig.since,
          untilSeconds |-> filterConfig.until]
    ELSE IF filterConfig.type = "relative-days"
    THEN [sinceSeconds |-> Some(now - filterConfig.days * SecondsPerDay),
          untilSeconds |-> Some(now)]
    ELSE IF filterConfig.type = "depth"
    THEN LET boundary == GetNthMostRecentBoundary(chatId, filterConfig.depth)
         IN  IF IsSome(boundary)
             THEN [sinceSeconds |-> Some(Val(boundary).messageTimestamp),
                   untilSeconds |-> None]
             ELSE NoBounds
    ELSE NoBounds

ComputeBounds(chatId) ==
    IF filterConfig.type = "absolute"
    THEN [sinceSeconds |-> filterConfig.since,
          untilSeconds |-> filterConfig.until]
    ELSE IF filterConfig.type = "relative-days"
    THEN LET latest == GetLatestMessageMeta(chatId)
         IN  IF IsSome(latest)
             THEN [sinceSeconds |->
                     Some(Val(latest).messageTimestamp
                            - filterConfig.days * SecondsPerDay),
                   untilSeconds |-> Some(Val(latest).messageTimestamp)]
             ELSE NoBounds
    ELSE IF filterConfig.type = "depth"
    THEN LET boundary == GetNthMostRecentBoundary(chatId, filterConfig.depth)
         IN  IF IsSome(boundary)
             THEN [sinceSeconds |-> Some(Val(boundary).messageTimestamp),
                   untilSeconds |-> None]
             ELSE NoBounds
    ELSE NoBounds

FilterConfigs ==
    { [type |-> "include-remoteJids"],
      [type |-> "absolute", since |-> Some(105), until |-> None],
      [type |-> "absolute", since |-> None, until |-> Some(100)],
      [type |-> "relative-days", days |-> 0],
      [type |-> "depth", depth |-> 1] }

(***************************************************************************)
(* services/upsertMessage.ts                                               *)
(***************************************************************************)
MessageDoc(doc, helpers) ==
    [ wa_message_id |-> helpers.wa_message_id,
      chat_id |-> helpers.chat_id,
      sender_jid |-> helpers.sender_jid,
      instance_id |-> helpers.instance_id,
      channel_id |-> helpers.channel_id,
      tenant_id |-> doc.tenantId,
      canonical |-> doc,
      ts_iso |-> helpers.ts_iso ]

\* updateOne({wa_message_id}, {$setOnInsert, $set}, {upsert: true})
UpsertMessage(coll, doc, helpers) ==
    LET k == helpers.wa_message_id
    IN  IF k \notin DOMAIN coll
        THEN [ coll |-> [x \in DOMAIN coll \cup {k} |->
                           IF x = k THEN MessageDoc(doc, helpers)
                           ELSE coll[x]],
               inserted |-> 1, updated |-> 0 ]
        ELSE LET new == [coll[k] EXCEPT !.canonical = doc,
                                        !.ts_iso = helpers.ts_iso]
             IN  [ coll |-> [coll EXCEPT ![k] = new],
                   inserted |-> 0,
                   updated |-> IF new # coll[k] THEN 1 ELSE 0 ]

(***************************************************************************)
(* services/upsertChat.ts and services/chatCursor.ts                       *)
(***************************************************************************)
GetExistingCursor(coll, chatId) ==
    IF chatId \notin DOMAIN coll THEN NullCursor
    ELSE [last_ts_seconds |-> coll[chatId].cursor.last_ts_seconds,
          last_message_id |-> coll[chatId].cursor.last_message_id]

OrElse(o, d) == IF IsSome(o) THEN Val(o) ELSE d

\* the $set part, applied in both phases
ChatSet(doc, input, nowIso) ==
    [doc EXCEPT
        !.lastActivityAt = OrElse(input.last_ts_iso_in_batch, nowIso),
        !.cursor.last_ts_seconds = input.last_ts_seconds,
        !.cursor.last_message_id = input.last_message_id,
        !.cursor.updated_at = nowIso]

\* variant: the inserted document starts with the count of the batch
ChatInitial_Counted(input, nowIso) ==
    ChatSet([ tenantId |-> input.tenantId,
              chatId |-> input.chatId,
              state |-> "active",
              createdAt |-> nowIso,
              lastActivityAt |-> nowIso,
              first_ts |-> OrElse(input.first_ts_iso_in_batch, nowIso),
              last_ts |-> OrElse(input.last_ts_iso_in_batch, nowIso),
              message_count |-> input.batch_imported_count,
              cursor |-> [last_ts_seconds |-> None,
                          last_message_id |-> None,
                          updated_at |-> nowIso,
                          imported_count |-> None] ],
            input, nowIso)

\* the document the phase-1 upsert inserts: $setOnInsert and $set
ChatInitial(input, nowIso) ==
    ChatSet([ tenantId |-> input.tenantId,
              chatId |-> input.chatId,
              state |-> "active",
              createdAt |-> nowIso,
              lastActivityAt |-> nowIso,
              first_ts |-> OrElse(input.first_ts_iso_in_batch, nowIso),
              last_ts |-> OrElse(input.last_ts_iso_in_batch, nowIso),
              message_count |-> 0,
              cursor |-> [last_ts_seconds |-> None,
                          last_message_id |-> None,
                          updated_at |-> nowIso,
                          imported_count |-> None] ],
            input, nowIso)

\* u_chat_id is a unique index on chat_id, a field no chat document has:
\* every document is indexed under null
ChatInsertConflicts(coll, chatId) == DOMAIN coll \ {chatId} # {}

\* variant: the upsert replaces a document that already exists
UpsertChatPhase1_Overwrite(coll, input, nowIso) ==
    [x \in DOMAIN coll \cup {input.chatId} |->
        IF x = input.chatId THEN ChatInitial(input, nowIso) ELSE coll[x]]

\* phase 1: findOne, then the inserting upsert when nothing was found
UpsertChatPhase1(coll, input, nowIso) ==
    IF input.chatId \in DOMAIN coll THEN coll
    ELSE [x \in DOMAIN coll \cup {input.chatId} |->
            IF x = input.chatId THEN ChatInitial(input, nowIso)
            ELSE coll[x]]

Count(o) == IF IsSome(o) THEN Val(o) ELSE 0

\* variant: first_ts and last_ts are $set from the batch, not $min / $max
UpsertChatPhase2_SetBounds(coll, input, nowIso) ==
    IF input.chatId \notin DOMAIN coll THEN coll
    ELSE LET d0 == ChatSet(coll[input.chatId], input, nowIso)
             d1 == [d0 EXCEPT
                      !.cursor.imported_count =
                          Some(Count(@) + input.batch_imported_count),
                      !.message_count = @ + input.batch_imported_count]
             d2 == IF IsSome(input.first_ts_iso_in_batch)
                   THEN [d1 EXCEPT !.first_ts =
                           Val(input.first_ts_iso_in_batch)]
                   ELSE d1
             d3 == IF IsSome(input.last_ts_iso_in_batch)
                   THEN [d2 EXCEPT !.last_ts =
                           Val(input.last_ts_iso_in_batch)]
                   ELSE d2
         IN  [coll EXCEPT ![input.chatId] = d3]

\* phase 2: $inc, $set, $min, $max with upsert: false
UpsertChatPhase2(coll, input, nowIso) ==
    IF input.chatId \notin DOMAIN coll THEN coll
    ELSE LET d0 == ChatSet(coll[input.chatId], input, nowIso)
             d1 == [d0 EXCEPT
                      !.cursor.imported_count =
                          Some(Count(@) + input.batch_imported_count),
                      !.message_count = @ + input.batch_imported_count]
             d2 == IF IsSome(input.first_ts_iso_in_batch)
                   THEN [d1 EXCEPT !.first_ts =
                           IsoMin(@, Val(input.first_ts_iso_in_batch))]
                   ELSE d1
             d3 == IF IsSome(input.last_ts_iso_in_batch)
                   THEN [d2 EXCEPT !.last_ts =
                           IsoMax(@, Val(input.last_ts_iso_in_batch))]
                   ELSE d2
         IN  [coll EXCEPT ![input.chatId] = d3]

UpsertChatThrows(coll, input) ==
    input.chatId \notin DOMAIN coll /\ ChatInsertConflicts(coll, input.chatId)

\* variant: the counters are $set to the count of the batch, not $inc'ed
UpsertChat_SetCounters(coll, input, nowIso) ==
    LET done == UpsertChatPhase2(UpsertChatPhase1(coll, input, nowIso),
                                 input, nowIso)
    IN  IF input.chatId \notin DOMAIN done THEN done
        ELSE [done EXCEPT
                ![input.chatId].message_count = input.batch_imported_count,
                ![input.chatId].cursor.imported_count =
                    Some(input.batch_imported_count)]

UpsertChat(coll, input, nowIso) ==
    UpsertChatPhase2(UpsertChatPhase1(coll, input, nowIso), input, nowIso)

(***************************************************************************)
(* cli/ingest.ts: the ingest action                                        *)
(***************************************************************************)
ClockStart == 200
MaxBatchCount == Len(KeyIds) + 1
NotRunning == {"idle", "done", "failed"}
Running == {"resume", "read", "row", "flush"}

ChatId == chatIds[chatIdx]
NoReads == [k \in {KeyIds[i] : i \in 1..Len(KeyIds)} |-> 0]
NoPrev == [c \in Chats |-> None]
NoCalls == <<>>
NoProbe == <<>>
Orderings(S) ==
    {q \in [1..Cardinality(S) -> S] : \A i, j \in DOMAIN q :
                                          i # j => q[i] # q[j]}
\* SELECT DISTINCT "key"->>'remoteJid' ... : in any order
DiscoverChatIds == Orderings({r.key.remoteJid : r \in source})

ResetRun ==
    /\ chatIds' = <<>>
    /\ chatIdx' = 0
    /\ cursor' = NullCursor
    /\ bounds' = NoBounds
    /\ rows' = <<>>
    /\ rowIdx' = 0
    /\ batchCount' = 0
    /\ importedForChat' = 0
    /\ firstIso' = None
    /\ lastIso' = None
    /\ readFrom' = NullCursor
    /\ firstRead' = NoReads
    /\ snapshot' = {}

Init ==
    /\ source = {}
    /\ messages = <<>>
    /\ chats = <<>>
    /\ now = ClockStart
    /\ filterConfig \in FilterConfigs
    /\ batchSize \in 1..MaxBatchSize
    /\ runs = 0
    /\ pc = "idle"
    /\ dryRun = FALSE
    /\ chatIds = <<>>
    /\ chatIdx = 0
    /\ cursor = NullCursor
    /\ bounds = NoBounds
    /\ rows = <<>>
    /\ rowIdx = 0
    /\ batchCount = 0
    /\ importedForChat = 0
    /\ firstIso = None
    /\ lastIso = None
    /\ readFrom = NullCursor
    /\ firstRead = NoReads
    /\ prev = NoPrev
    /\ failedAt = ""
    /\ snapshot = {}
    /\ calls = NoCalls
    /\ probe = NoProbe

\* a row is committed to the source between two invocations
SourceInsert ==
    /\ pc \in NotRunning
    /\ runs < MaxRuns
    /\ \E row \in RowUniverse :
          /\ \A r \in source : r.key.id # row.key.id
          /\ source' = source \cup {row}
    /\ UNCHANGED <<messages, chats, now, filterConfig, batchSize, runs, pc,
                   prev, failedAt, calls, probe>>
    /\ UNCHANGED runVars

\* lines 59-84: options, connections, chat discovery; wall-clock time has
\* passed since the previous invocation
StartRun ==
    /\ pc \in NotRunning
    /\ runs < MaxRuns
    /\ runs' = runs + 1
    /\ \E dry \in BOOLEAN, singleChat \in {None} \cup {Some(c) : c \in Chats} :
          /\ dryRun' = dry
          /\ IF IsSome(singleChat)
             THEN chatIds' = <<Val(singleChat)>>
             ELSE chatIds' \in DiscoverChatIds
    /\ chatIdx' = 1
    /\ pc' = IF chatIds' = <<>> THEN "done" ELSE "resume"
    /\ now' = now + 1
    /\ failedAt' = ""
    /\ UNCHANGED <<source, messages, chats, filterConfig, batchSize, prev,
                   snapshot, calls, probe>>
    /\ UNCHANGED <<cursor, bounds, rows, rowIdx, batchCount, importedForChat,
                   firstIso, lastIso, readFrom, firstRead>>

\* variant: the cursor and the accumulators are declared outside the chat
\* loop, so a later chat starts from where the chat before it ended
Resume_Shared ==
    /\ pc = "resume"
    /\ cursor' = IF chatIdx = 1 THEN GetExistingCursor(chats, ChatId)
                 ELSE cursor
    /\ batchCount' = 0
    /\ IF chatIdx = 1
       THEN importedForChat' = 0 /\ firstIso' = None /\ lastIso' = None
       ELSE UNCHANGED <<importedForChat, firstIso, lastIso>>
    /\ bounds' = ComputeBounds(ChatId)
    /\ rows' = <<>>
    /\ rowIdx' = 0
    /\ readFrom' = NullCursor
    /\ firstRead' = NoReads
    /\ snapshot' = source
    /\ pc' = "read"
    /\ UNCHANGED <<source, messages, chats, now, filterConfig, batchSize,
                   runs, dryRun, chatIds, chatIdx, prev, failedAt, calls, probe>>

\* lines 86-113: resume from the embedded cursor, compute the bounds
Resume ==
    /\ pc = "resume"
    /\ cursor' = GetExistingCursor(chats, ChatId)
    /\ batchCount' = 0
    /\ importedForChat' = 0
    /\ firstIso' = None
    /\ lastIso' = None
    /\ bounds' = ComputeBounds(ChatId)
    /\ rows' = <<>>
    /\ rowIdx' = 0
    /\ readFrom' = NullCursor
    /\ firstRead' = NoReads
    /\ snapshot' = source
    /\ pc' = "read"
    /\ UNCHANGED <<source, messages, chats, now, filterConfig, batchSize,
                   runs, dryRun, chatIds, chatIdx, prev, failedAt, calls, probe>>

\* lines 116-118: read the next batch; an empty batch ends the loop
ReadBatch ==
    /\ pc = "read"
    /\ LET batch == ReadBatchByChat(Some(ChatId), cursor, batchSize, bounds)
           n == IF batchCount < MaxBatchCount THEN batchCount + 1
                ELSE batchCount
       IN  /\ rows' = batch
           /\ readFrom' = cursor
           /\ IF batch = <<>>
              THEN /\ pc' = "flush"
                   /\ rowIdx' = 0
                   /\ UNCHANGED <<batchCount, firstRead>>
              ELSE /\ pc' = "row"
                   /\ rowIdx' = 1
                   /\ batchCount' = n
                   /\ firstRead' =
                        [k \in DOMAIN firstRead |->
                           IF firstRead[k] = 0
                              /\ \E i \in DOMAIN batch : batch[i].key.id = k
                           THEN n ELSE firstRead[k]]
    /\ UNCHANGED <<source, messages, chats, now, filterConfig, batchSize,
                   runs, dryRun, chatIds, chatIdx, cursor, bounds,
                   importedForChat, firstIso, lastIso, prev, failedAt,
                   snapshot, calls, probe>>

\* variant: the cursor keeps the timestamp but not the id
AdvanceCursor_TsOnly(row) ==
    [last_ts_seconds |-> Some(row.messageTimestamp),
     last_message_id |-> None]

\* lines 142-144: the cursor after a row was accepted
AdvanceCursor(row) ==
    [last_ts_seconds |-> Some(row.messageTimestamp),
     last_message_id |-> Some(WaMessageId(row))]

\* variant: the record is written without looking at the validation result
ProcessRecord_NoValidate(row) ==
    LET m == MapEvolutionRowToMessage(row, MapperContext(row))
        res == UpsertMessage(messages, m.msg, m.helpers)
    IN  /\ IF dryRun
           THEN UNCHANGED <<messages, importedForChat>>
           ELSE /\ messages' = res.coll
                /\ importedForChat' = importedForChat +
                     (IF res.inserted = 1 \/ res.updated = 1 THEN 1 ELSE 0)
        /\ firstIso' = IF IsSome(firstIso) THEN firstIso
                       ELSE Some(m.helpers.ts_iso)
        /\ lastIso' = Some(m.helpers.ts_iso)
        /\ cursor' = AdvanceCursor(row)

\* lines 121-145: the loop body for one row
ProcessRecord(row) ==
    LET m == MapEvolutionRowToMessage(row, MapperContext(row))
        res == UpsertMessage(messages, m.msg, m.helpers)
    IN  IF ~ValidateMessage(m.msg)
        THEN UNCHANGED <<messages, importedForChat, firstIso, lastIso,
                         cursor>>
        ELSE /\ IF dryRun
                THEN UNCHANGED <<messages, importedForChat>>
                ELSE /\ messages' = res.coll
                     /\ importedForChat' = importedForChat +
                          (IF res.inserted = 1 \/ res.updated = 1
                           THEN 1 ELSE 0)
             /\ firstIso' = IF IsSome(firstIso) THEN firstIso
                            ELSE Some(m.helpers.ts_iso)
             /\ lastIso' = Some(m.helpers.ts_iso)
             /\ cursor' = AdvanceCursor(row)

ProcessRow ==
    /\ pc = "row"
    /\ ProcessRecord(rows[rowIdx])
    /\ IF rowIdx < Len(rows)
       THEN /\ rowIdx' = rowIdx + 1
            /\ UNCHANGED <<pc, rows>>
       ELSE /\ rowIdx' = 0
            /\ rows' = <<>>
            /\ pc' = "read"
    /\ UNCHANGED <<source, chats, now, filterConfig, batchSize, runs, dryRun,
                   chatIds, chatIdx, bounds, batchCount, readFrom, firstRead,
                   prev, failedAt, snapshot, calls, probe>>

ChatUpsertInput ==
    [ tenantId |-> TenantId,
      chatId |-> ChatId,
      last_ts_seconds |-> cursor.last_ts_seconds,
      last_message_id |-> cursor.last_message_id,
      batch_imported_count |-> importedForChat,
      first_ts_iso_in_batch |-> firstIso,
      last_ts_iso_in_batch |-> lastIso ]

\* variant: the aggregate is flushed in a dry run too
Flush_NoDryRun ==
    /\ pc = "flush"
    /\ IF UpsertChatThrows(chats, ChatUpsertInput)
       THEN /\ pc' = "failed"
            /\ failedAt' = pc
            /\ ResetRun
            /\ UNCHANGED <<chats, prev>>
       ELSE /\ chats' = UpsertChat(chats, ChatUpsertInput, ToIso(now))
            /\ prev' = [prev EXCEPT ![ChatId] =
                          Some([source |-> source, messages |-> messages])]
            /\ rows' = <<>>
            /\ rowIdx' = 0
            /\ snapshot' = {}
            /\ IF chatIdx < Len(chatIds)
               THEN /\ chatIdx' = chatIdx + 1
                    /\ pc' = "resume"
               ELSE /\ chatIdx' = chatIdx
                    /\ pc' = "done"
            /\ UNCHANGED <<chatIds, cursor, bounds, batchCount,
                           importedForChat, firstIso, lastIso, readFrom,
                           firstRead, failedAt>>
    /\ UNCHANGED <<source, messages, now, filterConfig, batchSize, runs,
                   dryRun, calls, probe>>

\* lines 148-162: flush the aggregate of the chat, go on to the next chat
Flush ==
    /\ pc = "flush"
    /\ IF ~dryRun /\ UpsertChatThrows(chats, ChatUpsertInput)
       THEN /\ pc' = "failed"
            /\ failedAt' = pc
            /\ ResetRun
            /\ UNCHANGED <<chats, prev>>
       ELSE /\ chats' = IF dryRun THEN chats
                        ELSE UpsertChat(chats, ChatUpsertInput, ToIso(now))
            /\ prev' = IF dryRun THEN prev
                       ELSE [prev EXCEPT ![ChatId] =
                               Some([source |-> source,
                                     messages |-> messages])]
            /\ rows' = <<>>
            /\ rowIdx' = 0
            /\ snapshot' = {}
            /\ IF chatIdx < Len(chatIds)
               THEN /\ chatIdx' = chatIdx + 1
                    /\ pc' = "resume"
               ELSE /\ chatIdx' = chatIdx
                    /\ pc' = "done"
            /\ UNCHANGED <<chatIds, cursor, bounds, batchCount,
                           importedForChat, firstIso, lastIso, readFrom,
                           firstRead, failedAt>>
    /\ UNCHANGED <<source, messages, now, filterConfig, batchSize, runs,
                   dryRun, calls, probe>>

\* variant: the error handler flushes the aggregate of the chat
Abort_Flush ==
    /\ pc \in Running
    /\ pc' = "failed"
    /\ failedAt' = pc
    /\ ResetRun
    /\ chats' = IF dryRun \/ UpsertChatThrows(chats, ChatUpsertInput)
                THEN chats
                ELSE UpsertChat(chats, ChatUpsertInput, ToIso(now))
    /\ UNCHANGED <<source, messages, now, filterConfig, batchSize, runs,
                   dryRun, prev, calls, probe>>

\* lines 165-167: a read or write error ends the invocation
Abort ==
    /\ pc \in Running
    /\ pc' = "failed"
    /\ failedAt' = pc
    /\ ResetRun
    /\ UNCHANGED <<source, messages, chats, now, filterConfig, batchSize,
                   runs, dryRun, prev, calls, probe>>

Next ==
    \/ SourceInsert
    \/ StartRun
    \/ Resume
    \/ ReadBatch
    \/ ProcessRow
    \/ Flush
    \/ Abort

Spec == Init /\ [][Next]_vars

(***************************************************************************)
(* Paging under the scheduling of the event loop: every awaited step of a  *)
(* started invocation is eventually resumed; nothing fails, and the source *)
(* is any set of rows with distinct natural ids.                           *)
(***************************************************************************)
SourceUniverse ==
    {S \in SUBSET RowUniverse :
        \A r1, r2 \in S : r1.key.id = r2.key.id => r1 = r2}

LiveInit ==
    /\ source \in SourceUniverse
    /\ messages = <<>>
    /\ chats = <<>>
    /\ now = ClockStart
    /\ filterConfig \in FilterConfigs
    /\ batchSize \in 1..MaxBatchSize
    /\ runs = 0
    /\ pc = "idle"
    /\ dryRun = FALSE
    /\ chatIds = <<>>
    /\ chatIdx = 0
    /\ cursor = NullCursor
    /\ bounds = NoBounds
    /\ rows = <<>>
    /\ rowIdx = 0
    /\ batchCount = 0
    /\ importedForChat = 0
    /\ firstIso = None
    /\ lastIso = None
    /\ readFrom = NullCursor
    /\ firstRead = NoReads
    /\ prev = NoPrev
    /\ failedAt = ""
    /\ snapshot = {}
    /\ calls = NoCalls
    /\ probe = NoProbe

LiveNext == StartRun \/ Resume \/ ReadBatch \/ ProcessRow \/ Flush

LiveSpec ==
    /\ LiveInit
    /\ [][LiveNext]_vars
    /\ WF_vars(Resume)
    /\ WF_vars(ReadBatch)
    /\ WF_vars(ProcessRow)
    /\ WF_vars(Flush)

(***************************************************************************)
(* Delivery of mapped records to the loop body and the aggregate flush,    *)
(* for any sequence of records of one chat: the source may deliver the     *)
(* same natural id again, with the same or with different content.         *)
(***************************************************************************)
DeliverInit ==
    /\ source = {}
    /\ messages = <<>>
    /\ chats = <<>>
    /\ now = ClockStart
    /\ filterConfig = [type |-> "include-remoteJids"]
    /\ batchSize = 1
    /\ runs = 0
    /\ pc = "deliver"
    /\ dryRun = FALSE
    /\ chatIds \in Orderings(Chats)
    /\ chatIdx = 1
    /\ cursor = NullCursor
    /\ bounds = NoBounds
    /\ rows = <<>>
    /\ rowIdx = 0
    /\ batchCount = 0
    /\ importedForChat = 0
    /\ firstIso = None
    /\ lastIso = None
    /\ readFrom = NullCursor
    /\ firstRead = NoReads
    /\ prev = NoPrev
    /\ failedAt = ""
    /\ snapshot = {}
    /\ calls = NoCalls
    /\ probe = NoProbe

\* lines 121-145 applied to a delivered record
Deliver ==
    /\ pc \in {"deliver", "flushed"}
    /\ batchCount < MaxDeliveries
    /\ \E row \in RowUniverse :
          /\ row.key.remoteJid = ChatId
          /\ rows' = <<row>>
          /\ ProcessRecord(row)
    /\ batchCount' = batchCount + 1
    /\ pc' = "deliver"
    /\ UNCHANGED <<source, chats, now, filterConfig, batchSize, runs, dryRun,
                   chatIds, chatIdx, bounds, rowIdx, readFrom, firstRead,
                   prev, failedAt, snapshot, calls, probe>>

\* lines 148-159, followed by lines 90-93 of the next invocation
FlushDelivered ==
    /\ pc = "deliver"
    /\ chats' = UpsertChat(chats, ChatUpsertInput, ToIso(now))
    /\ importedForChat' = 0
    /\ firstIso' = None
    /\ lastIso' = None
    /\ pc' = "flushed"
    /\ UNCHANGED <<source, messages, now, filterConfig, batchSize, runs,
                   dryRun, chatIds, chatIdx, cursor, bounds, rows, rowIdx,
                   batchCount, readFrom, firstRead, prev, failedAt, snapshot,
                   calls, probe>>

DeliverNext == Deliver \/ FlushDelivered

DeliverSpec == DeliverInit /\ [][DeliverNext]_vars

(***************************************************************************)
(* Properties                                                              *)
(***************************************************************************)
Range(q) == {q[i] : i \in DOMAIN q}
Min2(a, b) == IF a < b THEN a ELSE b
CursorAt(ts, id) == [last_ts_seconds |-> Some(ts), last_message_id |-> Some(id)]
ChatMessages(c) == {k \in DOMAIN messages : messages[k].chat_id = c}
\* the aggregate without its wall-clock stamps
Unstamped(doc) ==
    [doc EXCEPT !.lastActivityAt = None, !.cursor.updated_at = None]

\* a non-dry invocation flushes a chat whose previous flush saw the same source
SecondFlush ==
    /\ pc = "flush"
    /\ ~dryRun
    /\ IsSome(prev[ChatId])
    /\ Val(prev[ChatId]).source = source
    /\ pc' = "resume" \/ pc' = "done"

C2_RedeliveryCountsOnce ==
    /\ pc = "flushed" =>
          \A c \in DOMAIN chats :
              chats[c].message_count = Cardinality(ChatMessages(c))
    /\ pc = "deliver" /\ rows # <<>> /\ RowIsValid(rows[1]) =>
          /\ WaMessageId(rows[1]) \in DOMAIN messages
          /\ messages[WaMessageId(rows[1])].canonical =
                MapEvolutionRowToMessage(rows[1], MapperContext(rows[1])).msg

\* C3: processing a row whose mapped record fails validation moves the
\* in-memory cursor to (timestamp, id) of that row.
C3_InvalidRowAdvancesCursor ==
    [][(pc = "row" /\ pc' # "failed" /\ ~RowIsValid(rows[rowIdx])) =>
          cursor' = AdvanceCursor(rows[rowIdx])]_vars

\* C4: the paging loop of a started conversation eventually reads an empty
\* batch and the conversation is flushed, whatever rows fail validation.
C4_PagingTerminates == (pc = "read") ~> (pc = "flush")

\* C5: a batch is in ascending (timestamp, id) order, and of two rows read in
\* a run the one with the smaller key is first read in an earlier or the
\* same batch.
C5_Ordering ==
    /\ \A i, j \in DOMAIN rows :
          i < j => KeyLess(RowKey(rows[i]), RowKey(rows[j]))
    /\ \A r1, r2 \in source :
          (/\ KeyLess(RowKey(r1), RowKey(r2))
           /\ firstRead[r1.key.id] # 0
           /\ firstRead[r2.key.id] # 0)
          => firstRead[r1.key.id] <= firstRead[r2.key.id]

C5_Witness ==
    /\ pc = "row"
    /\ Len(rows) = 2
    /\ batchCount = 2
    /\ \E r \in source : firstRead[r.key.id] = 1

\* the rows readBatch may return for the cursor it was given
Eligible ==
    {r \in source :
        /\ r.key.remoteJid = ChatId
        /\ readFrom = NullCursor
              \/ KeyLess(<<Val(readFrom.last_ts_seconds),
                           Val(readFrom.last_message_id)>>, RowKey(r))
        /\ IsSome(bounds.sinceSeconds)
              => Val(bounds.sinceSeconds) <= r.messageTimestamp
        /\ IsSome(bounds.untilSeconds)
              => r.messageTimestamp <= Val(bounds.untilSeconds)}

\* C6: the batch holds, in ascending (timestamp, id) order, the batchSize
\* smallest rows of the chat that lie strictly after the cursor and within
\* the bounds, and no other row.
C6_PaginationPredicate ==
    pc \in {"row", "flush"} =>
        /\ Range(rows) \subseteq Eligible
        /\ Len(rows) = Min2(batchSize, Cardinality(Eligible))
        /\ \A i, j \in DOMAIN rows :
              i < j => KeyLess(RowKey(rows[i]), RowKey(rows[j]))
        /\ \A r \in Eligible \ Range(rows) : \A i \in DOMAIN rows :
              KeyLess(RowKey(rows[i]), RowKey(r))

C6_Witness ==
    /\ pc = "row"
    /\ IsSome(readFrom.last_ts_seconds)
    /\ IsSome(bounds.sinceSeconds)
    /\ rows[1].messageTimestamp = Val(readFrom.last_ts_seconds)
    /\ Cardinality(ChatRows(ChatId)) > Cardinality(Eligible)
    /\ Cardinality(Eligible) > Len(rows)

ScenarioSource ==
    { EvolutionMessageRow("a", "c1", 100, JsonString("Ann")),
      EvolutionMessageRow("b", "c1", 100, JsonString("Ann")),
      EvolutionMessageRow("c", "c1", 105, JsonString("Ann")) }

ScenarioRun ==
    /\ batchSize = 2
    /\ filterConfig.type = "include-remoteJids"
    /\ runs = 1
    /\ ~dryRun

\* C7: rows (100,a), (100,b), (105,c), no stored cursor, batch size 2: the
\* first batch is [a,b] and leaves the cursor at (100,b), the second is [c],
\* the third is empty, and the flushed aggregate has message_count 3,
\* first_ts t(100), last_ts t(105).
C7_Scenario ==
    /\ (ScenarioRun /\ pc \in Running /\ source = ScenarioSource) =>
          /\ batchCount <= 2
          /\ (pc = "row" /\ batchCount = 1) =>
                /\ readFrom = NullCursor
                /\ rows = << EvolutionMessageRow("a", "c1", 100,
                                                 JsonString("Ann")),
                             EvolutionMessageRow("b", "c1", 100,
                                                 JsonString("Ann")) >>
          /\ (pc = "read" /\ batchCount = 1) => cursor = CursorAt(100, "b")
          /\ (pc = "row" /\ batchCount = 2) =>
                /\ readFrom = CursorAt(100, "b")
                /\ rows = << EvolutionMessageRow("c", "c1", 105,
                                                 JsonString("Ann")) >>
          /\ (pc = "read" /\ batchCount = 2) => cursor = CursorAt(105, "c")
          /\ pc = "flush" =>
                /\ batchCount = 2
                /\ rows = <<>>
                /\ importedForChat = 3
    /\ (/\ ScenarioRun
        /\ pc = "done"
        /\ IsSome(prev["c1"])
        /\ Val(prev["c1"]).source = ScenarioSource) =>
          /\ chats["c1"].message_count = 3
          /\ chats["c1"].first_ts = <<0, 0, 1, 40>>
          /\ chats["c1"].last_ts = <<0, 0, 1, 45>>
          /\ chats["c1"].cursor.last_ts_seconds = Some(105)
          /\ chats["c1"].cursor.last_message_id = Some("c")

C7_Witness ==
    /\ ScenarioRun
    /\ pc = "done"
    /\ IsSome(prev["c1"])
    /\ Val(prev["c1"]).source = ScenarioSource
    /\ Cardinality(DOMAIN messages) = 3

CreatedAts(c) == {messages[k].canonical.createdAt : k \in ChatMessages(c)}

\* C8: after completed runs, first_ts is the least and last_ts the greatest
\* createdAt among the imported messages of the conversation, never a value
\* that no imported message carries.
C8_AggregateBoundsExact ==
    (pc = "done" /\ ~dryRun) =>
        \A c \in DOMAIN chats :
            /\ chats[c].first_ts \in CreatedAts(c)
            /\ chats[c].last_ts \in CreatedAts(c)
            /\ \A t \in CreatedAts(c) :
                  /\ ~IsoLess(t, chats[c].first_ts)
                  /\ ~IsoLess(chats[c].last_ts, t)

\* C9: no write to an aggregate raises its first_ts or lowers its last_ts.
C9_BoundsMonotone ==
    [][\A c \in DOMAIN chats :
          /\ c \in DOMAIN chats'
          /\ ~IsoLess(chats[c].first_ts, chats'[c].first_ts)
          /\ ~IsoLess(chats'[c].last_ts, chats[c].last_ts)]_vars

C9_Witness ==
    \E c \in DOMAIN chats :
        /\ chats[c].message_count > 0
        /\ chats[c].last_ts = chats[c].createdAt
        /\ IsoLess(chats[c].first_ts, chats[c].createdAt)
        /\ IsoLess(chats[c].createdAt, chats[c].cursor.updated_at)

\* C10: a row whose mapped record fails validation writes no message
\* document and adds nothing to the imported count; every stored message
\* document comes from a row that passed validation.
C10_InvalidNeverStoredOrCounted ==
    /\ [](\A k \in DOMAIN messages :
             \E r \in source : WaMessageId(r) = k /\ RowIsValid(r))
    /\ [][(pc = "row" /\ ~RowIsValid(rows[rowIdx])) =>
             /\ messages' = messages
             /\ chats' = chats
             /\ pc' = "failed" \/ importedForChat' = importedForChat]_vars

C10_Witness ==
    /\ pc = "row"
    /\ ~dryRun
    /\ rowIdx = 2
    /\ ~RowIsValid(rows[1])
    /\ RowIsValid(rows[2])

(***************************************************************************)
(* An invocation over several chats: the source holds rows of two chats,   *)
(* and any awaited read or write of the invocation may fail.               *)
(***************************************************************************)
AllChats == Chats \cup {"c2"}
MultiRowUniverse ==
    {EvolutionMessageRow(KeyIds[i], jid, ts, pn) :
        i \in 1..Len(KeyIds), jid \in AllChats, ts \in Timestamps,
        pn \in PushNames}
MultiSourceUniverse ==
    {S \in SUBSET MultiRowUniverse :
        \A r1, r2 \in S : r1.key.id = r2.key.id => r1 = r2}

MultiInit ==
    /\ source \in MultiSourceUniverse
    /\ messages = <<>>
    /\ chats = <<>>
    /\ now = ClockStart
    /\ filterConfig = [type |-> "include-remoteJids"]
    /\ batchSize \in 1..MaxBatchSize
    /\ runs = 0
    /\ pc = "idle"
    /\ dryRun = FALSE
    /\ chatIds = <<>>
    /\ chatIdx = 0
    /\ cursor = NullCursor
    /\ bounds = NoBounds
    /\ rows = <<>>
    /\ rowIdx = 0
    /\ batchCount = 0
    /\ importedForChat = 0
    /\ firstIso = None
    /\ lastIso = None
    /\ readFrom = NullCursor
    /\ firstRead = NoReads
    /\ prev = [c \in AllChats |-> None]
    /\ failedAt = ""
    /\ snapshot = {}
    /\ calls = NoCalls
    /\ probe = NoProbe

MultiNext == StartRun \/ Resume \/ ReadBatch \/ ProcessRow \/ Flush \/ Abort

MultiSpec == MultiInit /\ [][MultiNext]_vars

\* C11: an error while one conversation is being processed does not end the
\* run while other conversations of the run remain: the run goes on to them.
C11_FailureIsolation ==
    [][(pc \in Running /\ chatIdx < Len(chatIds)) => pc' # "failed"]_vars

(***************************************************************************)
(* Failures inside the paging loop                                         *)
(***************************************************************************)
\* C12 (as stated): when a read or write fails in batch k, the aggregate is
\* flushed with what batches 1..k-1 accumulated, and the persisted cursor is
\* the cursor reached at the end of batch k-1.
C12_AbortFlushesEarlierBatches ==
    [][(/\ pc' = "failed"
        /\ ~dryRun
        /\ \/ pc = "read" /\ batchCount >= 1
           \/ pc = "row" /\ batchCount >= 2) =>
          /\ ChatId \in DOMAIN chats'
          /\ GetExistingCursor(chats', ChatId) =
                (IF pc = "read" THEN cursor ELSE readFrom)
          /\ pc = "read" =>
                chats' = UpsertChat(chats, ChatUpsertInput, ToIso(now))]_vars

\* C13: a failed read of a batch changes neither the persisted cursor nor
\* the aggregate (nor any message document).
C13_ReadFailureAtomic ==
    [][(pc = "read" /\ pc' = "failed") =>
          /\ chats' = chats
          /\ messages' = messages
          /\ GetExistingCursor(chats', ChatId) =
                GetExistingCursor(chats, ChatId)]_vars

C13_Witness ==
    /\ pc = "failed"
    /\ failedAt = "read"
    /\ ~dryRun
    /\ DOMAIN messages # {}
    /\ \E c \in DOMAIN chats : chats[c].message_count > 0

\* C17 (as stated): after each batch of a non-dry run the persisted cursor
\* of the conversation is the cursor reached at the end of that batch.
C17_CursorPersistedPerBatch ==
    (pc = "read" /\ ~dryRun /\ batchCount >= 1) =>
        GetExistingCursor(chats, ChatId) = cursor

(***************************************************************************)
(* index.ts: SIGINT or SIGTERM during an invocation.  The handler exits    *)
(* the process at once, whatever the ingest action is awaiting.            *)
(***************************************************************************)
Shutdown ==
    /\ pc \in Running
    /\ pc' = "stopped"
    /\ ResetRun
    /\ UNCHANGED <<source, messages, chats, now, filterConfig, batchSize,
                   runs, dryRun, prev, failedAt, calls, probe>>

SignalNext ==
    \/ SourceInsert
    \/ StartRun
    \/ Resume
    \/ ReadBatch
    \/ ProcessRow
    \/ Flush
    \/ Shutdown

SignalSpec == Init /\ [][SignalNext]_vars

\* the persisted cursor of the chat of a stored message is at or past the
\* key of the row the message came from
CursorCovers(k) ==
    LET cur == GetExistingCursor(chats, messages[k].chat_id)
    IN  /\ IsSome(cur.last_ts_seconds)
        /\ IsSome(cur.last_message_id)
        /\ \A r \in source :
              WaMessageId(r) = k =>
                 ~KeyLess(<<Val(cur.last_ts_seconds),
                            Val(cur.last_message_id)>>, RowKey(r))

\* C18 (as stated): a requested stop takes effect only between batches or
\* between conversations, so in no stopped state is there a stored message
\* whose cursor advance has not been persisted.
C18_ShutdownAtBoundaries ==
    /\ [][pc' = "stopped" => pc # "row"]_vars
    /\ [](pc = "stopped" => \A k \in DOMAIN messages : CursorCovers(k))

(***************************************************************************)
(* services/chats.ts: upsertChat called by two callers for the same chat.  *)
(* Every awaited store operation (findOne, the inserting updateOne, the    *)
(* second updateOne) is one atomic step, the steps of the two callers      *)
(* interleave in any order, and any awaited operation may throw.           *)
(***************************************************************************)
MaxBatchImported == 2
Callers == {1, 2}
CallChat == "c1"

\* inputs as the ingest action builds them: a flush after no accepted row,
\* or after accepted rows up to the key (ts, id)
CallInputs ==
    {[ tenantId |-> TenantId, chatId |-> CallChat,
       last_ts_seconds |-> None, last_message_id |-> None,
       batch_imported_count |-> 0,
       first_ts_iso_in_batch |-> None, last_ts_iso_in_batch |-> None ]}
    \cup
    UNION
    {{[ tenantId |-> TenantId, chatId |-> CallChat,
        last_ts_seconds |-> Some(ts), last_message_id |-> Some(KeyIds[i]),
        batch_imported_count |-> n,
        first_ts_iso_in_batch |-> Some(ToIso(ts0)),
        last_ts_iso_in_batch |-> Some(ToIso(ts)) ] :
          ts0 \in {t \in Timestamps : t <= ts},
          i \in 1..Len(KeyIds) - 1, n \in 0..MaxBatchImported} :
       ts \in Timestamps}

PriorInput(c) ==
    [ tenantId |-> TenantId, chatId |-> c,
      last_ts_seconds |-> Some(100), last_message_id |-> Some(KeyIds[1]),
      batch_imported_count |-> 1,
      first_ts_iso_in_batch |-> Some(ToIso(100)),
      last_ts_iso_in_batch |-> Some(ToIso(100)) ]

\* the collection before the calls: empty, or holding the aggregate an
\* earlier flush left for the chat or for another chat
PriorChats ==
    {<<>>} \cup
    {UpsertChat(<<>>, PriorInput(c), ToIso(ClockStart - 1)) :
        c \in {CallChat, "c2"}}

NewCall(input) ==
    [ pc |-> "idle", input |-> input, nowIso |-> None, existing |-> FALSE,
      before |-> NullCursor, inserted |-> FALSE, failedAt |-> "" ]

UpsertInit ==
    /\ chats \in PriorChats
    /\ calls \in {[prior |-> chats, of |-> [w \in Callers |-> NewCall(q[w])]] :
                     q \in [Callers -> CallInputs]}
    /\ probe = NoProbe
    /\ source = {}
    /\ messages = <<>>
    /\ now = ClockStart
    /\ filterConfig = [type |-> "include-remoteJids"]
    /\ batchSize = 1
    /\ runs = 0
    /\ pc = "upsert"
    /\ dryRun = FALSE
    /\ chatIds = <<>>
    /\ chatIdx = 0
    /\ cursor = NullCursor
    /\ bounds = NoBounds
    /\ rows = <<>>
    /\ rowIdx = 0
    /\ batchCount = 0
    /\ importedForChat = 0
    /\ firstIso = None
    /\ lastIso = None
    /\ readFrom = NullCursor
    /\ firstRead = NoReads
    /\ prev = NoPrev
    /\ failedAt = ""
    /\ snapshot = {}

UnchangedByCalls ==
    /\ UNCHANGED <<source, messages, filterConfig, batchSize, runs, pc,
                   prev, failedAt, probe>>
    /\ UNCHANGED runVars

\* lines 15-19: the call begins and reads the clock
CallStart(w) ==
    /\ calls.of[w].pc = "idle"
    /\ calls' = [calls EXCEPT
                   !.of[w].pc = "find",
                   !.of[w].nowIso = Some(ToIso(now)),
                   !.of[w].before =
                       GetExistingCursor(chats, calls.of[w].input.chatId)]
    /\ now' = now + 1
    /\ UNCHANGED chats
    /\ UnchangedByCalls

\* lines 64-67: findOne
FindOne(w) ==
    /\ calls.of[w].pc = "find"
    /\ LET existing == calls.of[w].input.chatId \in DOMAIN chats
       IN  calls' = [calls EXCEPT
                       !.of[w].existing = existing,
                       !.of[w].pc = IF existing THEN "second" ELSE "initial"]
    /\ UNCHANGED <<chats, now>>
    /\ UnchangedByCalls

\* variant: the inserting update replaces a document that already exists
UpdateOneInitial_Replace(coll, input, nowIso) ==
    [x \in DOMAIN coll \cup {input.chatId} |->
        IF x = input.chatId THEN ChatInitial(input, nowIso) ELSE coll[x]]

\* lines 70-79: updateOne(filter, {$setOnInsert, $set}, {upsert: true});
\* a matched document only gets the $set part
UpdateOneInitial(coll, input, nowIso) ==
    IF input.chatId \in DOMAIN coll
    THEN [coll EXCEPT ![input.chatId] = ChatSet(@, input, nowIso)]
    ELSE [x \in DOMAIN coll \cup {input.chatId} |->
            IF x = input.chatId THEN ChatInitial(input, nowIso)
            ELSE coll[x]]

\* lines 69-80: phase 1, taken when findOne found nothing
UpsertInitial(w) ==
    /\ calls.of[w].pc = "initial"
    /\ LET c == calls.of[w] IN
       IF UpsertChatThrows(chats, c.input)
       THEN /\ calls' = [calls EXCEPT !.of[w].pc = "failed",
                                      !.of[w].failedAt = "initial"]
            /\ UNCHANGED chats
       ELSE /\ chats' = UpdateOneInitial(chats, c.input, Val(c.nowIso))
            /\ calls' = [calls EXCEPT
                           !.of[w].pc = "second",
                           !.of[w].inserted = c.input.chatId \notin DOMAIN chats]
    /\ UNCHANGED now
    /\ UnchangedByCalls

PriorCount(c) ==
    IF c \in DOMAIN calls.prior THEN calls.prior[c].message_count ELSE 0
PriorImported(c) ==
    IF c \in DOMAIN calls.prior
    THEN calls.prior[c].cursor.imported_count ELSE None

\* variant: the counters are written from the values read before the calls
UpdateSecond_FromPrior(w) ==
    /\ calls.of[w].pc = "second"
    /\ LET c == calls.of[w]
           id == c.input.chatId
           stale == IF id \in DOMAIN chats
                    THEN [chats EXCEPT
                            ![id].message_count = PriorCount(id),
                            ![id].cursor.imported_count = PriorImported(id)]
                    ELSE chats
       IN  chats' = UpsertChatPhase2(stale, c.input, Val(c.nowIso))
    /\ calls' = [calls EXCEPT !.of[w].pc = "done"]
    /\ UNCHANGED now
    /\ UnchangedByCalls

\* lines 82-94: phase 2, updateOne(filter, {$inc, $set, $min, $max},
\* {upsert: false})
UpdateSecond(w) ==
    /\ calls.of[w].pc = "second"
    /\ LET c == calls.of[w]
       IN  chats' = UpsertChatPhase2(chats, c.input, Val(c.nowIso))
    /\ calls' = [calls EXCEPT !.of[w].pc = "done"]
    /\ UNCHANGED now
    /\ UnchangedByCalls

\* an awaited store operation rejects: the call throws
CallFails(w) ==
    /\ calls.of[w].pc \in {"find", "initial", "second"}
    /\ calls' = [calls EXCEPT !.of[w].pc = "failed",
                              !.of[w].failedAt = calls.of[w].pc]
    /\ UNCHANGED <<chats, now>>
    /\ UnchangedByCalls

UpsertNext ==
    \E w \in Callers :
        \/ CallStart(w)
        \/ FindOne(w)
        \/ UpsertInitial(w)
        \/ UpdateSecond(w)
        \/ CallFails(w)

UpsertSpec == UpsertInit /\ [][UpsertNext]_vars

Ended(w) == calls.of[w].pc \in {"done", "failed"}
Other(w) == CHOOSE o \in Callers : o # w

\* C14 (as stated): when phase 1 of a call succeeded or was skipped and its
\* phase 2 failed, the cursor persisted in the aggregate is the one that was
\* persisted before the call (no other call has run meanwhile).
C14_Phase2FailureKeepsCursor ==
    pc = "upsert" =>
        \A w \in Callers :
            (/\ calls.of[w].pc = "failed"
             /\ calls.of[w].failedAt = "second"
             /\ calls.of[Other(w)].pc = "idle") =>
               GetExistingCursor(chats, calls.of[w].input.chatId) =
                   calls.of[w].before

Inserters == {w \in Callers : calls.of[w].inserted}

C16_IncrementsNotLost ==
    (pc = "upsert" /\ \A w \in Callers : calls.of[w].pc = "done") =>
        LET a == calls.of[1].input.batch_imported_count
            b == calls.of[2].input.batch_imported_count
        IN  /\ chats[CallChat].message_count = PriorCount(CallChat) + a + b
            /\ Count(chats[CallChat].cursor.imported_count) =
                  Count(PriorImported(CallChat)) + a + b

C16_Witness ==
    /\ pc = "upsert"
    /\ \A w \in Callers :
          /\ calls.of[w].pc = "done"
          /\ calls.of[w].input.batch_imported_count > 0
    /\ CallChat \in DOMAIN calls.prior
    /\ PriorCount(CallChat) > 0
    /\ calls.of[1].before = calls.of[2].before

(***************************************************************************)
(* The depth policy: invocations under a depth filter over one chat of up  *)
(* to MaxDepth + 5 valid rows; nothing fails.                              *)
(***************************************************************************)
MaxDepth == 1
DepthRows == Min2(MaxDepth + 5, Len(IdOrder))
DepthSources ==
    UNION {{{EvolutionMessageRow(IdOrder[i], "c1", ts[i], JsonString("Ann")) :
               i \in 1..n} : ts \in [1..n -> Timestamps]} : n \in 0..DepthRows}

DepthInit ==
    /\ source \in DepthSources
    /\ messages = <<>>
    /\ chats = <<>>
    /\ now = ClockStart
    /\ filterConfig \in {[type |-> "depth", depth |-> d] : d \in -1..MaxDepth}
    /\ batchSize \in 1..MaxBatchSize
    /\ runs = 0
    /\ pc = "idle"
    /\ dryRun = FALSE
    /\ chatIds = <<>>
    /\ chatIdx = 0
    /\ cursor = NullCursor
    /\ bounds = NoBounds
    /\ rows = <<>>
    /\ rowIdx = 0
    /\ batchCount = 0
    /\ importedForChat = 0
    /\ firstIso = None
    /\ lastIso = None
    /\ readFrom = NullCursor
    /\ firstRead = NoReads
    /\ prev = NoPrev
    /\ failedAt = ""
    /\ snapshot = {}
    /\ calls = NoCalls
    /\ probe = NoProbe

DepthSpec == DepthInit /\ [][LiveNext]_vars

\* the number of rows of S that come after r in (timestamp, id) order
Newer(S, r) == Cardinality({o \in S : KeyLess(RowKey(r), RowKey(o))})
MostRecent(S, n) == {r \in S : Newer(S, r) < n}
DistinctTimestamps(S) ==
    \A r1, r2 \in S : r1 # r2 => r1.messageTimestamp # r2.messageTimestamp
\* the first, non-dry invocation has read every batch of the chat
FirstRunRead ==
    /\ pc = "flush"
    /\ runs = 1
    /\ ~dryRun
    /\ filterConfig.type = "depth"
    /\ filterConfig.depth >= 1

\* C19 (as stated): under depth N, over a conversation of more than N rows
\* with pairwise distinct timestamps, a run from a null cursor imports
\* exactly the N most recent rows.
C19_DepthImportsMostRecentN ==
    (/\ FirstRunRead
     /\ Cardinality(ChatRows(ChatId)) > filterConfig.depth
     /\ DistinctTimestamps(ChatRows(ChatId))) =>
        DOMAIN messages =
           {WaMessageId(r) :
               r \in MostRecent(ChatRows(ChatId), filterConfig.depth)}

\* C20: under depth D >= 1, a conversation of exactly D rows gets no bound
\* and a first run imports all its rows; a conversation of D + 5 rows gets
\* no upper bound and, as lower bound, the timestamp of the row that has
\* exactly D rows after it in (timestamp, id) order.
C20_DepthBoundary ==
    (/\ pc \in {"read", "row", "flush"}
     /\ filterConfig.type = "depth"
     /\ filterConfig.depth >= 1) =>
        LET S == ChatRows(ChatId)
            D == filterConfig.depth
        IN  /\ Cardinality(S) = D =>
                 /\ bounds = NoBounds
                 /\ FirstRunRead =>
                       DOMAIN messages = {WaMessageId(r) : r \in S}
            /\ Cardinality(S) = D + 5 =>
                 /\ bounds.untilSeconds = None
                 /\ \E r \in S :
                       /\ Newer(S, r) = D
                       /\ bounds.sinceSeconds = Some(r.messageTimestamp)

C20_Witness ==
    /\ FirstRunRead
    /\ Cardinality(ChatRows(ChatId)) = filterConfig.depth + 5
    /\ IsSome(bounds.sinceSeconds)
    /\ bounds.untilSeconds = None
    /\ Cardinality(DOMAIN messages) > filterConfig.depth
    /\ Cardinality(DOMAIN messages) < Cardinality(ChatRows(ChatId))

(***************************************************************************)
(* Invocations over a given set of sources under a given set of filter     *)
(* configurations; the target store starts empty.                          *)
(***************************************************************************)
IdleInit(sources, configs) ==
    /\ source \in sources
    /\ filterConfig \in configs
    /\ batchSize \in 1..MaxBatchSize
    /\ messages = <<>>
    /\ chats = <<>>
    /\ now = ClockStart
    /\ runs = 0
    /\ pc = "idle"
    /\ dryRun = FALSE
    /\ chatIds = <<>>
    /\ chatIdx = 0
    /\ cursor = NullCursor
    /\ bounds = NoBounds
    /\ rows = <<>>
    /\ rowIdx = 0
    /\ batchCount = 0
    /\ importedForChat = 0
    /\ firstIso = None
    /\ lastIso = None
    /\ readFrom = NullCursor
    /\ firstRead = NoReads
    /\ failedAt = ""
    /\ snapshot = {}
    /\ calls = NoCalls
    /\ probe = NoProbe

(***************************************************************************)
(* The relative-days policy over one chat; nothing fails.                  *)
(***************************************************************************)
MaxDays == 1
DaysConfigs == {[type |-> "relative-days", days |-> d] : d \in 0..MaxDays}
DaysInit ==
    /\ IdleInit(DepthSources, DaysConfigs)
    /\ prev = NoPrev

DaysSpec == DaysInit /\ [][LiveNext]_vars

BoundsComputed ==
    /\ pc \in {"read", "row", "flush"}
    /\ chatIds # <<>>

\* C21: under relative-days with N days, a conversation whose latest row
\* has timestamp L is read within until = L and since = L - N * 86400,
\* whatever the wall clock; a conversation without rows gets no bounds, is
\* read as zero rows and the run does not fail.
C21_RelativeDaysBounds ==
    (BoundsComputed /\ filterConfig.type = "relative-days") =>
        LET S == ChatRows(ChatId)
        IN  IF S = {}
            THEN /\ bounds = NoBounds
                 /\ batchCount = 0
                 /\ rows = <<>>
                 /\ pc = "flush" \/ pc = "read"
                 /\ failedAt = ""
            ELSE \E r \in S :
                    /\ \A o \in S : o.messageTimestamp <= r.messageTimestamp
                    /\ bounds =
                         [sinceSeconds |->
                             Some(r.messageTimestamp
                                    - filterConfig.days * SecondsPerDay),
                          untilSeconds |-> Some(r.messageTimestamp)]

C21_Witness ==
    /\ pc = "flush"
    /\ runs = MaxRuns
    /\ filterConfig.type = "relative-days"
    /\ filterConfig.days = 0
    /\ \E r1, r2 \in ChatRows(ChatId) :
          r1.messageTimestamp < r2.messageTimestamp
    /\ bounds.sinceSeconds = bounds.untilSeconds
    /\ IsSome(bounds.untilSeconds)
    /\ Val(bounds.untilSeconds) < now

\* C22: under the depth policy with depth <= 0 no bounds are applied, the
\* run does not fail, and a first run reads every row of the conversation
\* (and, when not dry, stores every one of them).
C22_DepthZeroImportsAll ==
    (/\ BoundsComputed
     /\ filterConfig.type = "depth"
     /\ filterConfig.depth <= 0) =>
        LET S == ChatRows(ChatId)
        IN  /\ bounds = NoBounds
            /\ failedAt = ""
            /\ (pc = "flush" /\ runs = 1) =>
                  /\ S # {} =>
                        cursor = CursorAt(OrderLast(S).messageTimestamp,
                                          WaMessageId(OrderLast(S)))
                  /\ ~dryRun =>
                        DOMAIN messages = {WaMessageId(r) : r \in S}

C22_Witness ==
    /\ pc = "flush"
    /\ runs = 1
    /\ ~dryRun
    /\ filterConfig.type = "depth"
    /\ filterConfig.depth <= 0
    /\ Cardinality(DOMAIN messages) > 2
    /\ \E r1, r2 \in ChatRows(ChatId) :
          r1.messageTimestamp < r2.messageTimestamp

(***************************************************************************)
(* Frame of a dry run                                                      *)
(***************************************************************************)
\* C23: no step of a run started with --dry-run creates or modifies a
\* message document or a conversation aggregate (its cursor included).
C23_DryRunWritesNothing ==
    [][(dryRun /\ pc \in Running) =>
          /\ messages' = messages
          /\ chats' = chats]_vars

C23_Witness ==
    /\ pc = "done"
    /\ dryRun
    /\ runs = 1
    /\ \E r \in source : RowIsValid(r) /\ r.key.remoteJid \in Range(chatIds)
    /\ messages = <<>>
    /\ chats = <<>>

(***************************************************************************)
(* cli/ingest.ts, lines 57-84: the options of the command.  --chat has a   *)
(* default value, so the option is set even when it is not given.          *)
(***************************************************************************)
DefaultChat == "19175769740@s.whatsapp.net"
CliChats == {"c2", DefaultChat}
CliRowUniverse ==
    {EvolutionMessageRow(KeyIds[i], jid, ts, JsonString("Ann")) :
        i \in 1..Len(KeyIds), jid \in CliChats, ts \in Timestamps}
CliSources ==
    {S \in SUBSET CliRowUniverse :
        \A r1, r2 \in S : r1.key.id = r2.key.id => r1 = r2}
CliConfigs ==
    {[type |-> "include-remoteJids", remoteJids |-> l] :
        l \in {<<>>, <<"c2">>}}

\* lines 60-79: the chats of the command line
\* `ingest [--chat <chatOption>]`, in the orders discovery may return them
ChatIdsFor(chatOption) ==
    LET chat == IF IsSome(chatOption) THEN Val(chatOption) ELSE DefaultChat
        singleChat == IF chat # "" THEN Some(chat) ELSE None
    IN  IF IsSome(singleChat)
        THEN {<<Val(singleChat)>>}
        ELSE IF /\ filterConfig.type = "include-remoteJids"
                /\ Len(filterConfig.remoteJids) > 0
        THEN {filterConfig.remoteJids}
        ELSE DiscoverChatIds

\* lines 59-84: the command is invoked without a --chat option
StartDefault ==
    /\ pc \in NotRunning
    /\ runs < MaxRuns
    /\ runs' = runs + 1
    /\ \E dry \in BOOLEAN : dryRun' = dry
    /\ chatIds' \in ChatIdsFor(None)
    /\ chatIdx' = 1
    /\ pc' = IF chatIds' = <<>> THEN "done" ELSE "resume"
    /\ now' = now + 1
    /\ failedAt' = ""
    /\ UNCHANGED <<source, messages, chats, filterConfig, batchSize, prev,
                   snapshot, calls, probe>>
    /\ UNCHANGED <<cursor, bounds, rows, rowIdx, batchCount, importedForChat,
                   firstIso, lastIso, readFrom, firstRead>>

CliInit ==
    /\ IdleInit(CliSources, CliConfigs)
    /\ prev = [c \in CliChats |-> None]

CliNext == StartDefault \/ Resume \/ ReadBatch \/ ProcessRow \/ Flush

CliSpec == CliInit /\ [][CliNext]_vars

\* C24 (as stated): a run started without --chat processes every chat that
\* discovery returns when the inclusion list is empty, and exactly the
\* listed chats when it is not.
C24_DefaultRunCoversAllChats ==
    [][runs' = runs + 1 =>
          Range(chatIds') =
             (IF Len(filterConfig.remoteJids) = 0
              THEN {r.key.remoteJid : r \in source}
              ELSE Range(filterConfig.remoteJids))]_vars

(***************************************************************************)
(* Paging while the source grows: rows are committed to the source while a *)
(* chat is being paged; nothing fails.                                     *)
(***************************************************************************)
InsertWhilePaging ==
    /\ pc \in {"read", "row"}
    /\ \E row \in RowUniverse :
          /\ \A r \in source : r.key.id # row.key.id
          /\ source' = source \cup {row}
    /\ UNCHANGED <<messages, chats, now, filterConfig, batchSize, runs, pc,
                   prev, failedAt, calls, probe>>
    /\ UNCHANGED runVars

InsertNext ==
    \/ StartRun
    \/ Resume
    \/ ReadBatch
    \/ ProcessRow
    \/ Flush
    \/ InsertWhilePaging

InsertSpec == LiveInit /\ [][InsertNext]_vars

\* the rows the paging of the chat had to cover when it began
DueAtStart ==
    {r \in snapshot :
        BatchPredicate(r, Some(ChatId), GetExistingCursor(chats, ChatId),
                       bounds)}

\* C25 (as stated): once rows were inserted into a conversation that is
\* being paged, no row is read in two batches, every batch is in ascending
\* (timestamp, id) order after the cursor it was read from, and when the
\* last batch has been read every row that was due when the paging began
\* has been read.
C25_PagingUnderInserts ==
    /\ (pc = "row" /\ source # snapshot) =>
          /\ \A i \in DOMAIN rows : firstRead[rows[i].key.id] = batchCount
          /\ \A i, j \in DOMAIN rows :
                i < j => KeyLess(RowKey(rows[i]), RowKey(rows[j]))
          /\ readFrom = NullCursor
                \/ KeyLess(<<Val(readFrom.last_ts_seconds),
                             Val(readFrom.last_message_id)>>,
                           RowKey(rows[1]))
    /\ (pc = "flush" /\ source # snapshot) =>
          \A r \in DueAtStart : firstRead[r.key.id] # 0

(***************************************************************************)
(* The mapper, the extractor and the validator as functions: one call,     *)
(* whose input is drawn from a bounded set and whose output is recorded.   *)
(***************************************************************************)
NewProbe(input) == [input |-> input, output |-> None]

ProbeInit(inputs) ==
    /\ probe \in {NewProbe(i) : i \in inputs}
    /\ pc = "probe"
    /\ source = {}
    /\ filterConfig = [type |-> "include-remoteJids"]
    /\ batchSize = 1
    /\ messages = <<>>
    /\ chats = <<>>
    /\ now = ClockStart
    /\ runs = 0
    /\ dryRun = FALSE
    /\ chatIds = <<>>
    /\ chatIdx = 0
    /\ cursor = NullCursor
    /\ bounds = NoBounds
    /\ rows = <<>>
    /\ rowIdx = 0
    /\ batchCount = 0
    /\ importedForChat = 0
    /\ firstIso = None
    /\ lastIso = None
    /\ readFrom = NullCursor
    /\ firstRead = NoReads
    /\ prev = NoPrev
    /\ failedAt = ""
    /\ snapshot = {}
    /\ calls = NoCalls

UnchangedByProbe ==
    /\ UNCHANGED <<source, messages, chats, now, filterConfig, batchSize,
                   runs, prev, failedAt, calls>>
    /\ UNCHANGED runVars

(***************************************************************************)
(* evolution/extract.ts applied to any (messageType, message)              *)
(***************************************************************************)
MessageTypes ==
    {"conversation", "extendedTextMessage", "imageMessage", "stickerMessage"}
Bodies(text) == {None, Some(""), Some(text)}
ApplyExtract ==
    /\ pc = "probe"
    /\ probe' = [probe EXCEPT !.output =
                   Some(ExtractTextAndCaption(probe.input.messageType,
                                              probe.input.message))]
    /\ pc' = "returned"
    /\ UnchangedByProbe

ExtractInit ==
    ProbeInit({[messageType |-> t,
                message |-> [conversation |-> p, extendedText |-> e,
                             imageCaption |-> c]] :
                  t \in MessageTypes, p \in Bodies("plain"),
                  e \in Bodies("extended"), c \in Bodies("caption")})

ExtractSpec == ExtractInit /\ [][ApplyExtract]_vars

\* C27 (as stated): for every (messageType, message) the extracted text is
\* the first non-empty one of the plain-text body, the extended-text body
\* and the media caption, and it is the placeholder [non-text:<messageType>]
\* exactly when all three are absent or empty.
C27_ContentPrecedence ==
    pc = "returned" =>
        LET m == probe.input.message
            out == Val(probe.output)
        IN  IF NonEmpty(m.conversation)
            THEN out = [text |-> Val(m.conversation), placeholder |-> FALSE]
            ELSE IF NonEmpty(m.extendedText)
            THEN out = [text |-> Val(m.extendedText), placeholder |-> FALSE]
            ELSE IF NonEmpty(m.imageCaption)
            THEN out = [text |-> Val(m.imageCaption), placeholder |-> FALSE]
            ELSE out = [text |-> probe.input.messageType,
                        placeholder |-> TRUE]

(***************************************************************************)
(* evolution/mapper.ts and hub/mapper.ts applied to malformed input.  A    *)
(* raw value is a number, a string (with the number it reads as, if any),  *)
(* null or undefined.                                                      *)
(***************************************************************************)
Raw(type, n) == [type |-> type, n |-> n]
\* 100, "100", "abc", null, undefined
RawTimestamps ==
    {Raw("number", Some(100)), Raw("string", Some(100)), Raw("string", None),
     Raw("null", None), Raw("undefined", None)}

\* ToNumber of the language: null is 0, undefined and other text are NaN
ToNumber(j) ==
    IF j.type = "null" THEN Some(0)
    ELSE IF j.type = "undefined" THEN None
    ELSE j.n
\* ToBoolean of the language (the text values here are non-empty)
RawTruthy(j) ==
    /\ j.type \in {"number", "string"}
    /\ j.type = "number" => Val(j.n) # 0

\* new Date(seconds * 1000).toISOString(): a RangeError when the time
\* value is NaN
ToISOString(seconds) ==
    IF IsSome(seconds) THEN Some(ToIso(Val(seconds))) ELSE None

RawRows ==
    {[ id |-> "a",
       key |-> k,
       pushName |-> JsonString("Ann"),
       participant |-> None,
       messageType |-> t,
       message |-> m,
       contextInfo |-> JsonNull,
       messageTimestamp |-> ts,
       instanceId |-> "i1" ] :
        k \in {None, Some([id |-> "a", remoteJid |-> "c1", fromMe |-> FALSE])},
        t \in {"conversation", "stickerMessage"},
        m \in {None,
               Some([conversation |-> Some("hi"), extendedText |-> None,
                     imageCaption |-> None]),
               Some([conversation |-> None, extendedText |-> None,
                     imageCaption |-> None])},
        ts \in RawTimestamps}

\* the optional chaining of lines 6-9 and of extract.ts: a missing key or
\* message reads as an object without fields
Chained(row, seconds) ==
    [row EXCEPT
       !.key = IF IsSome(@) THEN Val(@)
               ELSE [id |-> "", remoteJid |-> "", fromMe |-> FALSE],
       !.message = IF IsSome(@) THEN Val(@)
                   ELSE [conversation |-> None, extendedText |-> None,
                         imageCaption |-> None],
       !.messageTimestamp = seconds]

\* variant: createdAt is taken from the clock at mapping time
MapRawRow_WallClock(row, ctx) ==
    [threw |-> FALSE,
     ret |-> MapEvolutionRowToMessage(Chained(row, now), ctx)]

\* mapper.ts, lines 5-59, with the exception line 12 can raise
MapRawRow(row, ctx) ==
    LET seconds == ToNumber(row.messageTimestamp)
    IN  IF ToISOString(seconds) = None
        THEN [threw |-> TRUE]
        ELSE [threw |-> FALSE,
              ret |-> MapEvolutionRowToMessage(Chained(row, Val(seconds)),
                                               ctx)]

HubEvents ==
    {[message |-> [timestamp |-> t1], rawTimestamp |-> t2] :
        t1 \in RawTimestamps, t2 \in RawTimestamps}

\* hub mapper, lines 8-9: Number(a || b || Date.now() / 1000), then
\* toISOString
MapHubEventToMessage(ev) ==
    LET chosen == IF RawTruthy(ev.message.timestamp)
                  THEN ev.message.timestamp
                  ELSE IF RawTruthy(ev.rawTimestamp) THEN ev.rawTimestamp
                  ELSE Raw("number", Some(now))
        createdAt == ToISOString(ToNumber(chosen))
    IN  IF createdAt = None
        THEN [threw |-> TRUE]
        ELSE [threw |-> FALSE, ret |-> [createdAt |-> Val(createdAt)]]

ApplyMapper ==
    /\ pc = "probe"
    /\ probe' = [probe EXCEPT !.output =
                   Some(IF probe.input.kind = "row"
                        THEN MapRawRow(probe.input.row,
                                       [tenantId |-> TenantId,
                                        channel_id |-> "i1"])
                        ELSE MapHubEventToMessage(probe.input.ev))]
    /\ pc' = "returned"
    /\ UnchangedByProbe

MapperInit ==
    ProbeInit({[kind |-> "row", row |-> r] : r \in RawRows}
              \cup {[kind |-> "event", ev |-> e] : e \in HubEvents})

MapperSpec == MapperInit /\ [][ApplyMapper]_vars

\* C26 (as stated): the mappers return for every source row and event,
\* also with a missing or non-numeric timestamp or a missing key object;
\* a row whose content has no text is mapped to the placeholder text that
\* carries its message type.
C26_MapperTotal ==
    pc = "returned" =>
        LET out == Val(probe.output)
        IN  /\ ~out.threw
            /\ probe.input.kind = "row" =>
                  LET row == probe.input.row
                  IN  (\/ row.message = None
                       \/ row.messageType # "conversation"
                       \/ ~NonEmpty(Val(row.message).conversation)) =>
                         out.ret.msg.content =
                            [text |-> row.messageType, placeholder |-> TRUE]

(***************************************************************************)
(* schemas/message.schema.ts compiled by Ajv (validators.ts).  A schema    *)
(* node carries the keywords the schema uses; a document is a tagged JSON  *)
(* value whose object fields are a function from names to values.          *)
(***************************************************************************)
JsonObject(fields) == [type |-> "object", v |-> fields]
JsonArray(items) == [type |-> "array", v |-> items]

AnySchema ==
    [ types |-> {}, nullable |-> FALSE, enum |-> {}, const |-> None,
      format |-> "", properties |-> <<>>, required |-> {},
      additionalProperties |-> TRUE, items |-> None ]
StringSchema == [AnySchema EXCEPT !.types = {"string"}]
NullableStringSchema == [StringSchema EXCEPT !.nullable = TRUE]
EnumSchema(values) == [StringSchema EXCEPT !.enum = values]
DateTimeSchema == [StringSchema EXCEPT !.format = "date-time"]
ObjectSchema(properties, required, additional) ==
    [AnySchema EXCEPT !.types = {"object"}, !.properties = properties,
                      !.required = required,
                      !.additionalProperties = additional]
ArraySchema(itemSchema) ==
    [AnySchema EXCEPT !.types = {"array"}, !.items = Some(itemSchema)]

PartySchema ==
    ObjectSchema([channelId |-> StringSchema,
                  role |-> EnumSchema(Roles),
                  displayName |-> NullableStringSchema],
                 {"channelId", "role"}, FALSE)

messageSchema ==
    ObjectSchema(
        [ schemaVersion |-> [AnySchema EXCEPT !.types = {"number"},
                                              !.const = Some(JsonNumber("1"))],
          tenantId |-> StringSchema,
          messageId |-> StringSchema,
          chatId |-> StringSchema,
          correlationId |-> NullableStringSchema,
          causationMessageId |-> NullableStringSchema,
          channel |-> EnumSchema({"whatsapp", "telegram", "instagram",
                                  "twilio_sms", "twilio_rcs", "chatwoot",
                                  "email", "webhook", "system", "other"}),
          direction |-> EnumSchema({"inbound", "outbound"}),
          type |-> EnumSchema({"message", "status", "system"}),
          origin |-> EnumSchema({"provider", "internal"}),
          createdAt |-> DateTimeSchema,
          sender |-> PartySchema,
          recipients |-> ArraySchema(PartySchema),
          content |-> ObjectSchema(<<>>, {}, TRUE),
          context |-> [ObjectSchema(<<>>, {}, TRUE)
                         EXCEPT !.types = {"object", "null"}],
          raw |-> AnySchema,
          derived |->
            ArraySchema(
              ObjectSchema(
                [ source |-> StringSchema,
                  kind |-> EnumSchema({"asr", "ocr", "nlp", "moderation",
                                       "translation", "summary", "tagging",
                                       "other"}),
                  ts |-> DateTimeSchema,
                  data |-> AnySchema,
                  meta |-> [ObjectSchema(<<>>, {}, TRUE)
                              EXCEPT !.nullable = TRUE] ],
                {"source", "kind", "ts", "data"}, FALSE)) ],
        {"schemaVersion", "tenantId", "messageId", "chatId", "channel",
         "direction", "type", "origin", "createdAt", "sender", "recipients",
         "content", "raw", "derived"},
        FALSE)

\* variant: every undeclared field is accepted
AdditionalAllowed_Always(schema, field) == TRUE

\* the additionalProperties keyword for one field of an object
AdditionalAllowed(schema, field) ==
    field \in DOMAIN schema.properties \/ schema.additionalProperties

\* the validation function Ajv compiles from a schema
RECURSIVE Validate(_, _)
Validate(schema, value) ==
    /\ \/ schema.types = {}
       \/ value.type \in schema.types
       \/ schema.nullable /\ value.type = "null"
    /\ schema.enum # {} =>
          value.type = "string" /\ value.v \in schema.enum
    /\ IsSome(schema.const) => value = Val(schema.const)
    \* the one string used here that the date-time format accepts
    /\ (schema.format = "date-time" /\ value.type = "string") =>
          value.v = "2024-01-01T00:00:00.000Z"
    /\ value.type = "object" =>
          /\ schema.required \subseteq DOMAIN value.v
          /\ \A f \in DOMAIN value.v :
                /\ AdditionalAllowed(schema, f)
                /\ f \in DOMAIN schema.properties =>
                      Validate(schema.properties[f], value.v[f])
    /\ (value.type = "array" /\ IsSome(schema.items)) =>
          \A i \in DOMAIN value.v : Validate(Val(schema.items), value.v[i])

\* a canonical message with one recipient and one derived item
BaseDocument(context, meta) ==
    JsonObject(
      [ schemaVersion |-> JsonNumber("1"),
        tenantId |-> JsonString("t1"),
        messageId |-> JsonString("a"),
        chatId |-> JsonString("c1"),
        channel |-> JsonString("whatsapp"),
        direction |-> JsonString("inbound"),
        type |-> JsonString("message"),
        origin |-> JsonString("provider"),
        createdAt |-> JsonString("2024-01-01T00:00:00.000Z"),
        sender |-> JsonObject([channelId |-> JsonString("c1"),
                               role |-> JsonString("user"),
                               displayName |-> JsonNull]),
        recipients |-> JsonArray(<<JsonObject(
                               [channelId |-> JsonString("c1"),
                                role |-> JsonString("bot")])>>),
        content |-> JsonObject([text |-> JsonString("hi")]),
        context |-> context,
        raw |-> JsonNull,
        derived |-> JsonArray(<<JsonObject(
                               [source |-> JsonString("s"),
                                kind |-> JsonString("ocr"),
                                ts |-> JsonString("2024-01-01T00:00:00.000Z"),
                                data |-> JsonNull,
                                meta |-> meta])>>) ])

BaseDocuments ==
    {BaseDocument(c, m) :
        c \in {JsonNull, JsonObject([quoted |-> JsonString("q")])},
        m \in {JsonNull, JsonObject([lang |-> JsonString("en")])}}

Levels ==
    {"top", "sender", "recipient", "content", "context", "derived", "meta"}
ClosedLevels == {"top", "sender", "recipient", "derived"}

\* the object of a document at one level
ObjectAt(doc, level) ==
    CASE level = "top" -> doc
      [] level \in {"sender", "content", "context"} -> doc.v[level]
      [] level = "recipient" -> doc.v.recipients.v[1]
      [] level = "derived" -> doc.v.derived.v[1]
      [] level = "meta" -> doc.v.derived.v[1].v.meta

\* the schema node that governs one level
SchemaAt(level) ==
    CASE level = "top" -> messageSchema
      [] level \in {"sender", "content", "context"} ->
            messageSchema.properties[level]
      [] level = "recipient" -> Val(messageSchema.properties.recipients.items)
      [] level = "derived" -> Val(messageSchema.properties.derived.items)
      [] level = "meta" ->
            Val(messageSchema.properties.derived.items).properties.meta

\* one change to the fields of an object
ApplyEdit(fields, e) ==
    IF e.op = "drop"
    THEN [f \in DOMAIN fields \ {e.field} |-> fields[f]]
    ELSE [f \in DOMAIN fields \cup {e.field} |->
            IF f = e.field THEN e.value ELSE fields[f]]

EditAt(doc, level, e) ==
    LET edited(obj) == JsonObject(ApplyEdit(obj.v, e))
        item(array) == JsonArray(<<edited(array.v[1])>>)
        metaEdited(d) ==
            JsonObject([d.v EXCEPT !.meta = edited(@)])
    IN  CASE level = "top" -> edited(doc)
          [] level \in {"sender", "content", "context"} ->
                JsonObject([doc.v EXCEPT ![level] = edited(@)])
          [] level = "recipient" ->
                JsonObject([doc.v EXCEPT !.recipients = item(@)])
          [] level = "derived" ->
                JsonObject([doc.v EXCEPT !.derived = item(@)])
          [] level = "meta" ->
                JsonObject([doc.v EXCEPT !.derived =
                              JsonArray(<<metaEdited(@.v[1])>>)])

\* the defects a record can carry, one per input
Defects(doc) ==
    {[kind |-> "none", level |-> "top",
      edit |-> [op |-> "set", field |-> "raw", value |-> JsonNull]]}
    \cup UNION {
        {[kind |-> "missing", level |-> l,
          edit |-> [op |-> "drop", field |-> f, value |-> JsonNull]] :
            f \in SchemaAt(l).required}
        \cup
        {[kind |-> "enum", level |-> l,
          edit |-> [op |-> "set", field |-> f,
                    value |-> JsonString("unlisted")]] :
            f \in {g \in DOMAIN SchemaAt(l).properties :
                      \/ SchemaAt(l).properties[g].enum # {}
                      \/ IsSome(SchemaAt(l).properties[g].const)}}
        \cup
        {[kind |-> "extra", level |-> l,
          edit |-> [op |-> "set", field |-> "undeclared",
                    value |-> JsonString("x")]]} :
        l \in {k \in Levels : ObjectAt(doc, k).type = "object"}}

ApplyValidate ==
    /\ pc = "probe"
    /\ probe' = [probe EXCEPT
                   !.output = Some([valid |-> Validate(messageSchema,
                                                      probe.input.doc)])]
    /\ pc' = "returned"
    /\ UnchangedByProbe

ValidatorInit ==
    ProbeInit(UNION {{[base |-> doc, defect |-> d,
                       doc |-> EditAt(doc, d.level, d.edit)] :
                         d \in Defects(doc)} :
                     doc \in BaseDocuments})

ValidatorSpec == ValidatorInit /\ [][ApplyValidate]_vars

Validated(kind, levels) ==
    /\ pc = "returned"
    /\ "defect" \in DOMAIN probe.input
    /\ probe.input.defect.kind = kind
    /\ probe.input.defect.level \in levels

\* C28 (as stated): a record that lacks a required field, carries a value
\* outside an enumeration, or carries an undeclared field at any object
\* level is reported invalid.
C28_RejectsAtEveryLevel ==
    (\/ Validated("missing", Levels)
     \/ Validated("enum", Levels)
     \/ Validated("extra", Levels)) => ~Val(probe.output).valid

\* C28 (amended): missing required fields and values outside an
\* enumeration are rejected at every level; an undeclared field is
\* rejected at the top level, in sender, in recipients items and in
\* derived items, and accepted in content, context and the meta of a
\* derived item.
C28_RejectsAtClosedLevels ==
    /\ (\/ Validated("missing", Levels)
        \/ Validated("enum", Levels)
        \/ Validated("extra", ClosedLevels)) => ~Val(probe.output).valid
    /\ (\/ Validated("extra", Levels \ ClosedLevels)
        \/ Validated("none", Levels)) => Val(probe.output).valid

C28_Witness ==
    /\ Validated("extra", {"recipient"})
    /\ ~Val(probe.output).valid

\* C29 (as stated): within one conversation the next batch is read only
\* when every row of the batch before it has been mapped, validated and,
\* if valid in a run that writes, stored; the read uses the cursor of that
\* moment, which is the key of the last row of the batch before it.
C29_SequentialBatches ==
    [][ /\ (pc = "row" /\ pc' = "read") =>
              /\ rowIdx = Len(rows)
              /\ \A i \in DOMAIN rows :
                    (RowIsValid(rows[i]) /\ ~dryRun) =>
                        WaMessageId(rows[i]) \in DOMAIN messages'
              /\ cursor' = AdvanceCursor(rows[Len(rows)])
        /\ (pc = "read" /\ pc' \in {"row", "flush"}) =>
              /\ rows = <<>>
              /\ readFrom' = cursor ]_vars

\* C30 (as stated): when a run that writes reaches Done, also after earlier
\* runs were aborted by a read or write error with messages already
\* written, the message_count of each conversation of the run equals the
\* number of message documents stored for it.
C30_CountsSurviveAbort ==
    (pc = "done" /\ ~dryRun) =>
        \A i \in DOMAIN chatIds :
            /\ chatIds[i] \in DOMAIN chats
            /\ chats[chatIds[i]].message_count =
                  Cardinality(ChatMessages(chatIds[i]))

(***************************************************************************)
(* The aggregate collection across conversations and runs                  *)
(***************************************************************************)
\* C31 (as stated): in a run that writes, the flush of a conversation does
\* not fail because of the aggregates the target already holds, and when
\* a run over two or more conversations is Done every conversation of the
\* run that has a valid row has its own aggregate, whose cursor points at
\* one of its own rows and whose count is of its own messages.
C31_AggregatePerConversation ==
    /\ (pc = "flush" /\ ~dryRun) => ~UpsertChatThrows(chats, ChatUpsertInput)
    /\ (pc = "done" /\ ~dryRun /\ Len(chatIds) >= 2) =>
          \A i \in DOMAIN chatIds :
             (\E r \in ChatRows(chatIds[i]) : RowIsValid(r)) =>
                /\ chatIds[i] \in DOMAIN chats
                /\ chats[chatIds[i]].chatId = chatIds[i]
                /\ chats[chatIds[i]].message_count <=
                      Cardinality(ChatMessages(chatIds[i]))
                /\ \E r \in ChatRows(chatIds[i]) :
                      GetExistingCursor(chats, chatIds[i]) =
                         AdvanceCursor(r)

\* C32 (as stated): when a run is Done, a conversation has an aggregate
\* only if the source holds a row of it, that is, only if a message of it
\* could ever have been processed.
C32_AggregateOnlyAfterFirstMessage ==
    pc = "done" => \A c \in DOMAIN chats : ChatRows(c) # {}

\* cursor c1 is before cursor c2 in (timestamp, id) order; the null cursor
\* is before every other
CursorBefore(c1, c2) ==
    /\ IsSome(c2.last_ts_seconds)
    /\ \/ c1.last_ts_seconds = None
       \/ KeyLess(<<Val(c1.last_ts_seconds), Val(c1.last_message_id)>>,
                  <<Val(c2.last_ts_seconds), Val(c2.last_message_id)>>)

\* C33 (as stated): when two runs that both started from the persisted
\* cursor flush the same conversation, in whatever order their steps
\* interleave, no write moves the persisted cursor to a smaller
\* (timestamp, id).
C33_CursorHighWaterMark ==
    [][(/\ pc = "upsert"
        /\ \A w \in Callers :
              ~CursorBefore([last_ts_seconds |->
                                calls.of[w].input.last_ts_seconds,
                             last_message_id |->
                                calls.of[w].input.last_message_id],
                            GetExistingCursor(calls.prior, CallChat))) =>
          ~CursorBefore(GetExistingCursor(chats', CallChat),
                        GetExistingCursor(chats, CallChat))]_vars

MaxUpserts == 3

\* the arguments of a call: the helper projection and the canonical message
\* of a record with natural key k; the insert-time fields vary with p, the
\* canonical message and ts_iso with q
MessageInputs ==
    {[ wa_message_id |-> k,
       chat_id |-> IF p = 1 THEN "c1" ELSE "c2",
       sender_jid |-> IF p = 1 THEN None ELSE Some("s2"),
       instance_id |-> IF p = 1 THEN "i1" ELSE "i2",
       channel_id |-> IF p = 1 THEN "ev:cloud:i1" ELSE "ev:cloud:i2",
       contact_id |-> IF p = 1 THEN "" ELSE "s2",
       tenant_id |-> IF p = 1 THEN TenantId ELSE "other",
       canonical |-> [messageId |-> k, createdAt |-> ToIso(100 + 5 * q)],
       ts_iso |-> ToIso(100 + 5 * q) ] :
        k \in {"a", "b"}, p \in {1, 2}, q \in {0, 1}}

\* variant: the collection has no unique index on wa_message_id
DuplicateKey_NoIndex(coll, k) == FALSE

\* the index u_wa_message_id rejects an insert under a key that is present
DuplicateKey(coll, k) == \E i \in DOMAIN coll : coll[i].wa_message_id = k

\* variant: the update of a matched document writes every field
SetMatched_All(doc, input) == input

\* the update applied to a matched document: $set only
SetMatched(doc, input) ==
    [doc EXCEPT !.canonical = input.canonical, !.ts_iso = input.ts_iso]

MessageInit ==
    /\ messages = <<>>
    /\ calls = [of |-> [w \in Callers |->
                          [pc |-> "idle", matched |-> 0, doc |-> 0,
                           inserted |-> 0, updated |-> 0]],
                started |-> 0,
                upserted |-> {}]
    /\ pc = "messages"
    /\ probe = NoProbe
    /\ source = {}
    /\ chats = <<>>
    /\ now = ClockStart
    /\ filterConfig = [type |-> "include-remoteJids"]
    /\ batchSize = 1
    /\ runs = 0
    /\ dryRun = FALSE
    /\ chatIds = <<>>
    /\ chatIdx = 0
    /\ cursor = NullCursor
    /\ bounds = NoBounds
    /\ rows = <<>>
    /\ rowIdx = 0
    /\ batchCount = 0
    /\ importedForChat = 0
    /\ firstIso = None
    /\ lastIso = None
    /\ readFrom = NullCursor
    /\ firstRead = NoReads
    /\ prev = NoPrev
    /\ failedAt = ""
    /\ snapshot = {}

\* lines 4-22: a call with some arguments begins
MessageCall(w) ==
    /\ calls.of[w].pc \in {"idle", "returned", "threw"}
    /\ calls.started < MaxUpserts
    /\ \E input \in MessageInputs :
          calls' = [calls EXCEPT
                      !.of[w] = [pc |-> "match", input |-> input,
                                 matched |-> 0, doc |-> 0,
                                 inserted |-> 0, updated |-> 0],
                      !.started = @ + 1]
    /\ UNCHANGED <<messages, source, chats, now, filterConfig, batchSize,
                   runs, pc, prev, failedAt, probe>>
    /\ UNCHANGED runVars

\* lines 24-28: the store looks for a document that matches the filter
MessageMatch(w) ==
    /\ calls.of[w].pc = "match"
    /\ LET k == calls.of[w].input.wa_message_id
           found == {i \in DOMAIN messages : messages[i].wa_message_id = k}
       IN  calls' = [calls EXCEPT
                       !.of[w].pc = "write",
                       !.of[w].matched =
                           IF found = {} THEN 0
                           ELSE CHOOSE i \in found : \A j \in found : i <= j]
    /\ UNCHANGED <<messages, source, chats, now, filterConfig, batchSize,
                   runs, pc, prev, failedAt, probe>>
    /\ UNCHANGED runVars

\* lines 24-32: the store applies the update to the matched document, or
\* inserts; an insert the index rejects is applied as an update by the
\* store's retry, or the call throws
MessageWrite(w) ==
    /\ calls.of[w].pc = "write"
    /\ LET c == calls.of[w]
           k == c.input.wa_message_id
           at == IF c.matched # 0 THEN c.matched
                 ELSE CHOOSE i \in DOMAIN messages \cup {0} :
                         \/ i # 0 /\ messages[i].wa_message_id = k
                         \/ i = 0 /\ \A j \in DOMAIN messages :
                                        messages[j].wa_message_id # k
           update ==
               /\ messages' = [messages EXCEPT
                                 ![at] = SetMatched(@, c.input)]
               /\ calls' = [calls EXCEPT
                              !.of[w].pc = "returned",
                              !.of[w].doc = at,
                              !.of[w].updated =
                                  IF messages' # messages THEN 1 ELSE 0,
                              !.upserted = @ \cup {k}]
       IN  IF c.matched # 0
           THEN update
           ELSE IF DuplicateKey(messages, k)
           THEN \/ update
                \/ /\ calls' = [calls EXCEPT !.of[w].pc = "threw"]
                   /\ UNCHANGED messages
           ELSE /\ messages' = Append(messages, c.input)
                /\ calls' = [calls EXCEPT
                               !.of[w].pc = "returned",
                               !.of[w].doc = Len(messages) + 1,
                               !.of[w].inserted = 1,
                               !.upserted = @ \cup {k}]
    /\ UNCHANGED <<source, chats, now, filterConfig, batchSize, runs, pc,
                   prev, failedAt, probe>>
    /\ UNCHANGED runVars

MessageNext ==
    \E w \in Callers : MessageCall(w) \/ MessageMatch(w) \/ MessageWrite(w)

MessageSpec == MessageInit /\ [][MessageNext]_vars

\* C35: whatever calls were made, in whatever order and interleaving, the
\* collection holds at most one document under each natural key, and one
\* under every key for which a call has returned.
C35_OneDocumentPerKey ==
    pc = "messages" =>
        /\ \A i, j \in DOMAIN messages :
              messages[i].wa_message_id = messages[j].wa_message_id => i = j
        /\ \A k \in calls.upserted :
              \E i \in DOMAIN messages : messages[i].wa_message_id = k

\* two callers found no document under the same key, one of them
\* inserted, and the call of the other has returned as well
C35_Witness ==
    /\ pc = "messages"
    /\ \A w \in Callers :
          /\ calls.of[w].pc = "returned"
          /\ calls.of[w].input.wa_message_id = "a"
          /\ calls.of[w].matched = 0
    /\ \E w \in Callers : calls.of[w].inserted = 0

\* C36: a step of a call changes, of a document that exists, only the
\* canonical message and ts_iso: wa_message_id, chat_id, sender_jid,
\* instance_id, channel_id, contact_id and tenant_id stay as first written.
C36_ReupsertFrame ==
    [][pc = "messages" =>
         \A i \in DOMAIN messages :
            /\ i \in DOMAIN messages'
            /\ [messages'[i] EXCEPT !.canonical = messages[i].canonical,
                                    !.ts_iso = messages[i].ts_iso]
                  = messages[i]]_vars

\* a call for a key that had a document has returned; its arguments differ
\* from the document in the insert-time fields
C36_Witness ==
    /\ pc = "messages"
    /\ \E w \in Callers :
          /\ calls.of[w].pc = "returned"
          /\ calls.of[w].updated = 1
          /\ messages[calls.of[w].doc].chat_id # calls.of[w].input.chat_id
          /\ messages[calls.of[w].doc].canonical =
                calls.of[w].input.canonical

\* C37: in every state of the target, between the steps of interleaved and
\* failing upsertChat calls too, the message_count of each aggregate equals
\* its cursor.imported_count, an absent imported_count read as 0.
C37_CountersEqual ==
    pc = "upsert" =>
        \A c \in DOMAIN chats :
            chats[c].message_count = Count(chats[c].cursor.imported_count)

\* both calls added to the counters of an aggregate that had counts before
C37_Witness ==
    /\ pc = "upsert"
    /\ \A w \in Callers :
          /\ calls.of[w].pc = "done"
          /\ calls.of[w].input.batch_imported_count > 0
    /\ \E w \in Callers : calls.of[w].inserted
    /\ chats[CallChat].message_count > 2

\* C38: when the first read of a conversation is about to be issued, the
\* cursor it will pass is the cursor persisted for that conversation (null
\* if it has no aggregate), and the imported count and the first and last
\* timestamps accumulated for the conversation are empty.
C38_CursorIsolation ==
    (pc = "read" /\ batchCount = 0) =>
        /\ cursor = GetExistingCursor(chats, ChatId)
        /\ importedForChat = 0
        /\ firstIso = None
        /\ lastIso = None

\* the second conversation of a run is about to be read, and the
\* conversation before it has left another cursor
C38_Witness ==
    /\ pc = "read"
    /\ batchCount = 0
    /\ chatIdx = 2
    /\ cursor = GetExistingCursor(chats, ChatId)
    /\ GetExistingCursor(chats, chatIds[1]) # NullCursor
    /\ GetExistingCursor(chats, chatIds[1]) # cursor
    /\ chats[chatIds[1]].message_count > 0

(***************************************************************************)
(* The row mapper called twice on the same row and context, the clock      *)
(* moving on between the calls.                                            *)
(***************************************************************************)
RemapInit == ProbeInit({[row |-> r] : r \in RawRows})

\* one call of mapEvolutionRowToMessage; its outcome is appended to those
\* recorded, and time passes
MapRow ==
    /\ pc \in {"probe", "mapped"}
    /\ probe' = [probe EXCEPT
                   !.output = Append(@, MapRawRow(probe.input.row,
                                                  [tenantId |-> TenantId,
                                                   channel_id |-> "i1"]))]
    /\ pc' = IF pc = "probe" THEN "mapped" ELSE "remapped"
    /\ now' = now + 1
    /\ UNCHANGED <<source, messages, chats, filterConfig, batchSize, runs,
                   prev, failedAt, calls>>
    /\ UNCHANGED runVars

RemapSpec == RemapInit /\ [][MapRow]_vars

====
